---------------------------- MODULE Spec2Model ----------------------------
(***************************************************************************)
(* Supply-chain risk analysis backend: the risk scoring engine             *)
(* (services/risk_assessment_service.py), the geocoding client             *)
(* (services/geocoding_service.py), the product catalog client with its    *)
(* background index loader (services/product_aware_service.py) and the     *)
(* request handlers that use them (SCRA/app.py).                           *)
(*                                                                         *)
(* Python floats are modelled by exact rationals [n |-> _, d |-> _] kept   *)
(* in lowest terms.  The built-in round(x, 3) is modelled by the set of    *)
(* three-decimal values nearest to x: one value, or both neighbours when x *)
(* lies exactly half way (which neighbour a float tie yields depends on    *)
(* the binary representation error of x).  A dict is a function whose      *)
(* DOMAIN is its key set, so dict.get(key, default) is decided by DOMAIN.  *)
(* Python's None is the string "None".                                     *)
(***************************************************************************)
EXTENDS Integers, Sequences, FiniteSets, TLC

VARIABLES
    climate_risk_data,       \* self.climate_risk_data
    geopolitical_risk_data,  \* self.geopolitical_risk_data
    locations,               \* the location list of the current request
    products,                \* the product list of the current request
    ret,                     \* the last call on the current request
    prev,                    \* the last call on the previous request
    hash_order,              \* the interpreter's iteration order of hashed strings
    geocoding_service,       \* the GeocodingService object of the application
    now,                     \* the wall clock, in milliseconds
    requests,                \* the requests sent to the geocoding providers
    product_aware_service,   \* the ProductAwareService object of the application
    loader,                  \* the background thread running load_cache
    handlers                 \* the request threads of the application

\* the scoring engine, its request and its calls
engine_vars == <<climate_risk_data, geopolitical_risk_data, locations, products,
                 ret, prev, hash_order>>

\* the geocoding client, its clock and its providers
geocoding_vars == <<geocoding_service, now, requests>>

\* the product catalog client and the threads that use it
catalog_vars == <<product_aware_service, loader, handlers>>

vars == <<engine_vars, geocoding_vars, catalog_vars>>

None == "None"

\* None where a dict is expected
PyNone == [py |-> "None"]

\* isinstance(v, dict), for v a dict or PyNone
IsDict(v) == "py" \notin DOMAIN v

-----------------------------------------------------------------------------
(* Exact rational arithmetic standing for float arithmetic.                *)

RECURSIVE GCD(_, _)
GCD(a, b) == IF b = 0 THEN a ELSE GCD(b, a % b)

Abs(i) == IF i < 0 THEN -i ELSE i

R(n, d) ==
    LET g == GCD(Abs(n), d)
    IN  [n |-> n \div g, d |-> d \div g]

Zero == R(0, 1)
One == R(1, 1)
Half == R(1, 2)

RAdd(x, y) == R(x.n * y.d + y.n * x.d, x.d * y.d)
RSub(x, y) == R(x.n * y.d - y.n * x.d, x.d * y.d)
RMul(x, y) == R(x.n * y.n, x.d * y.d)
RDivInt(x, k) == R(x.n, x.d * k)
RLe(x, y) == x.n * y.d <= y.n * x.d
RLt(x, y) == x.n * y.d < y.n * x.d
RGe(x, y) == RLe(y, x)
RGt(x, y) == RLt(y, x)
RMax(x, y) == IF RGe(x, y) THEN x ELSE y
RMin(x, y) == IF RLe(x, y) THEN x ELSE y

\* round(x, 3) for x >= 0: the admissible results
Round3(x) ==
    LET q == (1000 * x.n) \div x.d
        r == (1000 * x.n) % x.d
    IN  IF 2 * r < x.d THEN {R(q, 1000)}
        ELSE IF 2 * r > x.d THEN {R(q + 1, 1000)}
        ELSE {R(q, 1000), R(q + 1, 1000)}

-----------------------------------------------------------------------------
(* dict and list helpers                                                   *)

Get(d, key, default) == IF key \in DOMAIN d THEN d[key] ELSE default

\* truth value of a string-or-None value
Truthy(v) == v # None /\ v # ""

RECURSIVE Filter(_, _, _)
\* [x for x in seq if x.get(key) == value]
Filter(seq, key, value) ==
    IF seq = <<>> THEN <<>>
    ELSE LET rest == Filter(Tail(seq), key, value)
         IN  IF Get(Head(seq), key, None) = value
             THEN <<Head(seq)>> \o rest
             ELSE rest

\* [loc.get('country', 'Unknown') for loc in seq]
CountryList(seq) == [i \in DOMAIN seq |-> Get(seq[i], "country", "Unknown")]

Range(seq) == {seq[i] : i \in DOMAIN seq}

-----------------------------------------------------------------------------
(* The static risk tables, restricted to the countries the model uses.     *)

LoadClimateRiskData ==
    [c \in {"Australia", "China", "Egypt", "India", "Sudan", "Unknown"} |->
        CASE c = "Australia" -> R(3, 10)
          [] c = "China" -> R(6, 10)
          [] c = "Egypt" -> R(7, 10)
          [] c = "India" -> R(7, 10)
          [] c = "Sudan" -> R(8, 10)
          [] c = "Unknown" -> R(5, 10)]

LoadGeopoliticalRiskData ==
    [c \in {"Australia", "China", "Egypt", "India", "Sudan", "Unknown"} |->
        CASE c = "Australia" -> R(1, 10)
          [] c = "China" -> R(4, 10)
          [] c = "Egypt" -> R(6, 10)
          [] c = "India" -> R(3, 10)
          [] c = "Sudan" -> R(8, 10)
          [] c = "Unknown" -> R(5, 10)]

-----------------------------------------------------------------------------
(* calculate_hhi                                                           *)

RECURSIVE Counter(_)
\* collections.Counter over a list: element -> number of occurrences
Counter(seq) ==
    IF seq = <<>> THEN << >>
    ELSE LET c == Counter(Tail(seq))
             x == Head(seq)
         IN  IF x \in DOMAIN c
             THEN [c EXCEPT ![x] = @ + 1]
             ELSE [y \in DOMAIN c \cup {x} |-> IF y = x THEN 1 ELSE c[y]]

\* the share of one location, whatever the count
market_share_of_one(count, total_locations) == R(1, total_locations)

market_share(count, total_locations) == R(count, total_locations)

RECURSIVE SumShares(_, _, _)
\* the shares added up without being squared
SumShares(country_counts, keys, total_locations) ==
    IF keys = {} THEN Zero
    ELSE LET key == CHOOSE x \in keys : TRUE
         IN  RAdd(R(country_counts[key], total_locations),
                  SumShares(country_counts, keys \ {key}, total_locations))

RECURSIVE SumSquaredShares(_, _, _)
\* hhi += market_share ** 2 for each count of the counter
SumSquaredShares(country_counts, keys, total_locations) ==
    IF keys = {} THEN Zero
    ELSE LET key == CHOOSE x \in keys : TRUE
             share == market_share(country_counts[key], total_locations)
         IN  RAdd(RMul(share, share),
                  SumSquaredShares(country_counts, keys \ {key}, total_locations))

\* the filter left out
unfiltered_locations(locs, location_type) == locs

filtered_locations(locs, location_type) ==
    IF Truthy(location_type) THEN Filter(locs, "type", location_type) ELSE locs

calculate_hhi(locs, location_type) ==
    IF locs = <<>> THEN Zero
    ELSE LET filtered == filtered_locations(locs, location_type)
         IN  IF filtered = <<>> THEN Zero
             ELSE LET country_counts == Counter(CountryList(filtered))
                  IN  SumSquaredShares(country_counts, DOMAIN country_counts,
                                       Len(filtered))


-----------------------------------------------------------------------------
(* assess_geographic_risk                                                  *)

\* the sequences that list every element of S once
Arrangements(S) == {s \in [1..Cardinality(S) -> S] : Range(s) = S}

\* where element e stands in sequence s, 0 if nowhere
Position(s, e) == IF e \in Range(s) THEN CHOOSE i \in DOMAIN s : s[i] = e ELSE 0

\* the order in which a Python set of strings is iterated: the same set is
\* iterated in the same order as long as the process runs, and hash_order
\* is that order for the strings the engine puts into sets
Orderings(S) ==
    {s \in Arrangements(S) :
        \A i, j \in DOMAIN s :
            i < j => Position(hash_order, s[i]) <= Position(hash_order, s[j])}

\* the overlap divided by the length of the target list
overlap_ratio_over_target(source_countries, target_countries) ==
    IF source_countries = <<>> THEN Zero
    ELSE LET target_set == {c \in Range(target_countries) : Truthy(c)}
             overlap == Cardinality({i \in DOMAIN source_countries :
                                        source_countries[i] \in target_set})
             longest == IF Len(target_countries) > 1 THEN Len(target_countries) ELSE 1
         IN  R(overlap, longest)

\* the nested function overlap_ratio(source_countries, target_countries)
overlap_ratio(source_countries, target_countries) ==
    IF source_countries = <<>> THEN Zero
    ELSE LET target_set == {c \in Range(target_countries) : Truthy(c)}
             overlap == Cardinality({i \in DOMAIN source_countries :
                                        source_countries[i] \in target_set})
             longest == IF Len(source_countries) > 1 THEN Len(source_countries) ELSE 1
         IN  R(overlap, longest)

\* base segment HHI = average of both ends' HHIs
base_seg(first_hhi, second_hhi) == RMul(RAdd(first_hhi, second_hhi), Half)

\* the co-location reduction factor k = 0.5
k == Half

\* the reduction added instead of subtracted
adj_seg_raised(base, overlap) ==
    RMax(RMul(base, RAdd(One, RMul(k, overlap))), Zero)

adj_seg(base, overlap) ==
    RMax(RMul(base, RSub(One, RMul(k, overlap))), Zero)

concentration_level(overall_hhi) ==
    IF RGe(overall_hhi, R(7, 10)) THEN "very_high"
    ELSE IF RGe(overall_hhi, R(5, 10)) THEN "high"
    ELSE IF RGe(overall_hhi, R(3, 10)) THEN "moderate"
    ELSE "low"

\* the thresholds compared with > instead of >=
is_high_risk_country_strict(country, climate, geopolitical) ==
    \/ RGt(Get(climate, country, R(5, 10)), R(7, 10))
    \/ RGt(Get(geopolitical, country, R(5, 10)), R(7, 10))

is_high_risk_country(country, climate, geopolitical) ==
    \/ RGe(Get(climate, country, R(5, 10)), R(7, 10))
    \/ RGe(Get(geopolitical, country, R(5, 10)), R(7, 10))

high_risk_country(country, climate, geopolitical) ==
    [country |-> country,
     climate_risk |-> Get(climate, country, R(5, 10)),
     geopolitical_risk |-> Get(geopolitical, country, R(5, 10))]

\* the risk_factors list; hhi_text is overall_hhi formatted with :.3f
risk_factors(overall_hhi, hhi_text, countries, high_risk_countries) ==
    (IF RGe(overall_hhi, R(5, 10))
     THEN <<[note |-> "High geographic concentration", hhi |-> hhi_text]>>
     ELSE <<>>)
    \o (IF Cardinality(countries) <= 2
        THEN <<[note |-> "Limited geographic diversity",
                count |-> Cardinality(countries)]>>
        ELSE <<>>)
    \o (IF high_risk_countries # <<>>
        THEN <<[note |-> "High-risk countries",
                list |-> [i \in DOMAIN high_risk_countries |->
                             high_risk_countries[i].country]]>>
        ELSE <<>>)

\* the local variables of assess_geographic_risk for a non-empty list
geographic_locals(locs) ==
    LET manufacturing_hhi == calculate_hhi(locs, "manufacturing")
        materials_hhi == calculate_hhi(locs, "raw_material")
        storage_hhi == calculate_hhi(locs, "supplier")
        material_countries == CountryList(Filter(locs, "type", "raw_material"))
        manufacturing_countries == CountryList(Filter(locs, "type", "manufacturing"))
        storage_countries == CountryList(Filter(locs, "type", "supplier"))
        overlap_m2m == overlap_ratio(material_countries, manufacturing_countries)
        overlap_manu_to_store == overlap_ratio(manufacturing_countries, storage_countries)
        base_seg_m2m == base_seg(materials_hhi, manufacturing_hhi)
        base_seg_manu_to_store == base_seg(manufacturing_hhi, storage_hhi)
    IN  [overall_hhi |-> calculate_hhi(locs, None),
         manufacturing_hhi |-> manufacturing_hhi,
         materials_hhi |-> materials_hhi,
         storage_hhi |-> storage_hhi,
         material_countries |-> material_countries,
         manufacturing_countries |-> manufacturing_countries,
         storage_countries |-> storage_countries,
         overlap_m2m |-> overlap_m2m,
         overlap_manu_to_store |-> overlap_manu_to_store,
         base_seg_m2m |-> base_seg_m2m,
         base_seg_manu_to_store |-> base_seg_manu_to_store,
         adj_seg_m2m |-> adj_seg(base_seg_m2m, overlap_m2m),
         adj_seg_manu_to_store |-> adj_seg(base_seg_manu_to_store, overlap_manu_to_store),
         countries |-> Range(CountryList(locs))]

\* the possible results of assess_geographic_risk: one for each order in
\* which the country set is iterated and each admissible rounding
assess_geographic_risk(locs, climate, geopolitical) ==
    IF locs = <<>>
    THEN {[total_locations |-> 0,
           countries |-> 0,
           hhi |-> Zero,
           concentration_risk |-> "low",
           country_distribution |-> << >>,
           risk_factors |-> <<>>]}
    ELSE LET l == geographic_locals(locs)
             flagged == {c \in l.countries : is_high_risk_country(c, climate, geopolitical)}
         IN  {[total_locations |-> Len(locs),
               countries |-> Cardinality(l.countries),
               hhi |-> hhi,
               concentration_risk |-> concentration_level(l.overall_hhi),
               country_distribution |-> Counter(CountryList(locs)),
               hhi_by_type |->
                   [manufacturing |-> manufacturing,
                    materials |-> materials,
                    storage |-> storage],
               hhi_by_segment |->
                   [materials_to_manufacturing |->
                        [base_hhi |-> base1, adjusted_hhi |-> adj1, overlap_ratio |-> ov1],
                    manufacturing_to_storage |->
                        [base_hhi |-> base2, adjusted_hhi |-> adj2, overlap_ratio |-> ov2]],
               risk_factors |->
                   risk_factors(l.overall_hhi, hhi, l.countries,
                                [i \in DOMAIN order |->
                                    high_risk_country(order[i], climate, geopolitical)]),
               high_risk_countries |->
                   [i \in DOMAIN order |->
                       high_risk_country(order[i], climate, geopolitical)]] :
              hhi \in Round3(l.overall_hhi),
              manufacturing \in Round3(l.manufacturing_hhi),
              materials \in Round3(l.materials_hhi),
              storage \in Round3(l.storage_hhi),
              base1 \in Round3(l.base_seg_m2m),
              adj1 \in Round3(l.adj_seg_m2m),
              ov1 \in Round3(l.overlap_m2m),
              base2 \in Round3(l.base_seg_manu_to_store),
              adj2 \in Round3(l.adj_seg_manu_to_store),
              ov2 \in Round3(l.overlap_manu_to_store),
              order \in Orderings(flagged)}

-----------------------------------------------------------------------------
(* _assess_lead_time_risk.  A text is a sequence of one-character strings. *)

UpperCase == <<"A", "B", "C", "D", "E", "F", "G", "H", "I", "J", "K", "L", "M",
               "N", "O", "P", "Q", "R", "S", "T", "U", "V", "W", "X", "Y", "Z">>

LowerCase == <<"a", "b", "c", "d", "e", "f", "g", "h", "i", "j", "k", "l", "m",
               "n", "o", "p", "q", "r", "s", "t", "u", "v", "w", "x", "y", "z">>

LowerChar(c) ==
    IF \E i \in DOMAIN UpperCase : UpperCase[i] = c
    THEN LowerCase[CHOOSE i \in DOMAIN UpperCase : UpperCase[i] = c]
    ELSE c

\* str.lower()
lower(text) == [i \in DOMAIN text |-> LowerChar(text[i])]

IsSpace(c) == c \in {" ", "\t", "\n", "\r"}

RECURSIVE lstrip(_)
lstrip(text) ==
    IF text # <<>> /\ IsSpace(Head(text)) THEN lstrip(Tail(text)) ELSE text

RECURSIVE rstrip(_)
rstrip(text) ==
    IF text # <<>> /\ IsSpace(text[Len(text)])
    THEN rstrip(SubSeq(text, 1, Len(text) - 1))
    ELSE text

\* str.strip()
strip(text) == rstrip(lstrip(text))

\* pattern in text
Contains(text, pattern) ==
    \E i \in 0..(Len(text) - Len(pattern)) :
        SubSeq(text, i + 1, i + Len(pattern)) = pattern

Digits == <<"0", "1", "2", "3", "4", "5", "6", "7", "8", "9">>

IsDigit(c) == \E i \in DOMAIN Digits : Digits[i] = c

DigitValue(c) == (CHOOSE i \in DOMAIN Digits : Digits[i] = c) - 1

RECURSIVE IntOf(_)
\* int() of a run of digits
IntOf(digits) ==
    IF digits = <<>> THEN 0
    ELSE 10 * IntOf(SubSeq(digits, 1, Len(digits) - 1))
         + DigitValue(digits[Len(digits)])

RECURSIVE Pow10(_)
Pow10(e) == IF e = 0 THEN 1 ELSE 10 * Pow10(e - 1)

\* float() of digits, an optional point and more digits
FloatOf(number) ==
    IF \E i \in DOMAIN number : number[i] = "."
    THEN LET point == CHOOSE i \in DOMAIN number : number[i] = "."
             whole == SubSeq(number, 1, point - 1)
             fraction == SubSeq(number, point + 1, Len(number))
         IN  RAdd(R(IntOf(whole), 1), R(IntOf(fraction), Pow10(Len(fraction))))
    ELSE R(IntOf(number), 1)

\* text[from..to] is matched by \s*
AllSpaces(text, from, to) == \A i \in from..to : IsSpace(text[i])

\* text[from..to] is matched by \d*
AllDigits(text, from, to) == \A i \in from..to : IsDigit(text[i])

\* text[from..to] is matched by \d+\.?\d*
IsNumber(text, from, to) ==
    /\ from <= to
    /\ IsDigit(text[from])
    /\ \A i \in from..to : IsDigit(text[i]) \/ text[i] = "."
    /\ Cardinality({i \in from..to : text[i] = "."}) <= 1

\* \s*<word> matches at text[after..]
SpacesThen(text, after, word) ==
    \E s \in after..(Len(text) + 1) :
        /\ AllSpaces(text, after, s - 1)
        /\ s + Len(word) - 1 <= Len(text)
        /\ SubSeq(text, s, s + Len(word) - 1) = word

\* (\d+\.?\d*)\s*weeks? matches at text[from..] with group text[from..to]
WeeksMatch(text, from, to) ==
    /\ IsNumber(text, from, to)
    /\ SpacesThen(text, to + 1, <<"w", "e", "e", "k">>)

\* (\d+)\s*days? matches at text[from..] with group text[from..to]
DaysMatch(text, from, to) ==
    /\ from <= to
    /\ AllDigits(text, from, to)
    /\ SpacesThen(text, to + 1, <<"d", "a", "y">>)

\* the phrase without the hyphen only
in_stock_australia_spaced_only(t) ==
    Contains(t, <<"i", "n", " ", "s", "t", "o", "c", "k", " ",
                  "a", "u", "s", "t", "r", "a", "l", "i", "a">>)

in_stock_australia(t) ==
    \/ Contains(t, <<"i", "n", " ", "s", "t", "o", "c", "k", " ",
                     "a", "u", "s", "t", "r", "a", "l", "i", "a">>)
    \/ Contains(t, <<"i", "n", "-", "s", "t", "o", "c", "k", " ",
                     "a", "u", "s", "t", "r", "a", "l", "i", "a">>)

\* re.search: the leftmost start, then the group the greedy match takes
parse_weeks(text) ==
    IF text = <<>> THEN R(-1, 1)
    ELSE LET t == lower(strip(text))
             weekStarts == {i \in DOMAIN t : \E j \in DOMAIN t : WeeksMatch(t, i, j)}
             dayStarts == {i \in DOMAIN t : \E j \in DOMAIN t : DaysMatch(t, i, j)}
             First(starts) == CHOOSE i \in starts : \A other \in starts : i <= other
             Longest(ends) == CHOOSE j \in ends : \A other \in ends : other <= j
         IN  IF in_stock_australia(t) THEN Zero
             ELSE IF weekStarts # {}
             THEN LET from == First(weekStarts)
                      to == Longest({j \in DOMAIN t : WeeksMatch(t, from, j)})
                  IN  FloatOf(SubSeq(t, from, to))
             ELSE IF dayStarts # {}
             THEN LET from == First(dayStarts)
                      to == Longest({j \in DOMAIN t : DaysMatch(t, from, j)})
                  IN  R(IntOf(SubSeq(t, from, to)), 5)
             ELSE R(-1, 1)

\* one tenth of risk for every week past the sixth
interpolate_steep(weeks) ==
    RMin(R(85, 100),
         RAdd(R(6, 10), RMul(RSub(RMax(weeks, R(6, 1)), R(6, 1)), R(1, 10))))

\* the line from 0.85 at 6 weeks down to 0.6 at 10 weeks
interpolate_falling(weeks) ==
    RMax(R(6, 10),
         RSub(R(85, 100),
              RMul(RSub(RMax(weeks, R(6, 1)), R(6, 1)), RMul(R(25, 100), R(1, 4)))))

\* min(0.85, 0.6 + (max(weeks, 6) - 6) * (0.25 / 4))
interpolate(weeks) ==
    RMin(R(85, 100),
         RAdd(R(6, 10),
              RMul(RSub(RMax(weeks, R(6, 1)), R(6, 1)),
                   RMul(R(25, 100), R(1, 4)))))

risk_from_text(text) ==
    IF text = <<>> THEN R(5, 10)
    ELSE LET t == lower(strip(text))
             weeks == parse_weeks(t)
         IN  IF in_stock_australia(t) THEN Zero
             ELSE IF weeks = Zero THEN Zero
             ELSE IF RLt(weeks, Zero) THEN R(5, 10)
             ELSE IF RLe(weeks, R(3, 1)) THEN R(2, 10)
             ELSE IF RLe(weeks, R(6, 1)) THEN R(6, 10)
             ELSE IF RGt(weeks, R(10, 1)) THEN R(9, 10)
             ELSE interpolate(weeks)

\* what risk_from_text holds when it returns: the text it classified, the
\* week count where it came to parse one, and the score
risk_from_text_locals(text) ==
    IF text = <<>> THEN [score |-> risk_from_text(text)]
    ELSE LET t == lower(strip(text))
         IN  IF in_stock_australia(t) THEN [t |-> t, score |-> risk_from_text(text)]
             ELSE [t |-> t, weeks |-> parse_weeks(t), score |-> risk_from_text(text)]

\* availability, then leadTime, then lead_time
lead_time_text_availability_first(p) ==
    LET raw == Get(p, "raw", << >>)
    IN  IF Get(raw, "availability", <<>>) # <<>> THEN raw.availability
        ELSE IF Get(raw, "leadTime", <<>>) # <<>> THEN raw.leadTime
        ELSE IF Get(raw, "lead_time", <<>>) # <<>> THEN raw.lead_time
        ELSE <<>>

\* raw.get('lead_time') or raw.get('leadTime') or raw.get('availability') or ''
lead_time_text(p) ==
    LET raw == Get(p, "raw", << >>)
    IN  IF Get(raw, "lead_time", <<>>) # <<>> THEN raw.lead_time
        ELSE IF Get(raw, "leadTime", <<>>) # <<>> THEN raw.leadTime
        ELSE IF Get(raw, "availability", <<>>) # <<>> THEN raw.availability
        ELSE <<>>

RECURSIVE lead_time_items(_)
\* the possible items lists, one for each admissible rounding of the risks
lead_time_items(prods) ==
    IF prods = <<>> THEN {<<>>}
    ELSE {<<[product |-> Get(Head(prods), "name", "Unknown"),
             lead_time |-> lead_time_text(Head(prods)),
             risk |-> risk]>> \o rest :
             risk \in Round3(risk_from_text(lead_time_text(Head(prods)))),
             rest \in lead_time_items(Tail(prods))}

RECURSIVE lead_time_total(_)
lead_time_total(prods) ==
    IF prods = <<>> THEN Zero
    ELSE RAdd(lead_time_total(SubSeq(prods, 1, Len(prods) - 1)),
              risk_from_text(lead_time_text(prods[Len(prods)])))

\* the loop raises AttributeError at a product that is no dict (p.get on
\* line 546) or whose raw record is None (raw.get on line 544)
raises_attribute_error(p) ==
    IF IsDict(p) THEN ~IsDict(Get(p, "raw", << >>)) ELSE TRUE

\* the loop's locals, one record for each product
lead_time_locals(prods) ==
    [i \in DOMAIN prods |-> risk_from_text_locals(lead_time_text(prods[i]))]

\* the total reported without dividing it by the count
assess_lead_time_risk_undivided(prods) ==
    IF prods = <<>> THEN {[average_risk |-> Zero, items |-> <<>>]}
    ELSE {[average_risk |-> avg, items |-> items] :
             avg \in Round3(lead_time_total(prods)),
             items \in lead_time_items(prods)}

assess_lead_time_risk(prods) ==
    IF prods = <<>> THEN {[average_risk |-> Zero, items |-> <<>>]}
    ELSE IF \E i \in DOMAIN prods : raises_attribute_error(prods[i])
    THEN {[raises |-> "AttributeError"]}
    ELSE {[average_risk |-> avg, items |-> items] :
             avg \in Round3(RDivInt(lead_time_total(prods), Len(prods))),
             items \in lead_time_items(prods)}

-----------------------------------------------------------------------------
(* _assess_climate_risk and _assess_geopolitical_risk                      *)

\* table.get(location.get('country', 'Unknown'), 0.5)
location_risk(location, table) ==
    Get(table, Get(location, "country", "Unknown"), R(5, 10))

RECURSIVE total_risk(_, _)
\* total_risk += table.get(country, 0.5) over the locations; the additions
\* are grouped by halves, which gives the same exact total at a small depth
total_risk(locs, table) ==
    IF locs = <<>> THEN Zero
    ELSE IF Len(locs) = 1 THEN location_risk(locs[1], table)
    ELSE LET half == Len(locs) \div 2
         IN  RAdd(total_risk(SubSeq(locs, 1, half), table),
                  total_risk(SubSeq(locs, half + 1, Len(locs)), table))

\* the entry appended for a location
high_risk_entry(location, table) ==
    [name |-> Get(location, "name", "Unknown"),
     country |-> Get(location, "country", "Unknown"),
     risk_level |-> location_risk(location, table),
     type |-> Get(location, "type", "unknown")]

\* only the locations scoring above 0.7
high_risk_locations_strict(locs, table) ==
    LET IsHigh(location) == RGt(location_risk(location, table), R(7, 10))
        high == SelectSeq(locs, IsHigh)
    IN  [i \in DOMAIN high |-> high_risk_entry(high[i], table)]

\* the entries appended over the loop, in the order of the locations
high_risk_locations(locs, table) ==
    LET IsHigh(location) == RGe(location_risk(location, table), R(7, 10))
        high == SelectSeq(locs, IsHigh)
    IN  [i \in DOMAIN high |-> high_risk_entry(high[i], table)]

exposure_level(average_risk) ==
    IF RGe(average_risk, R(6, 10)) THEN "high"
    ELSE IF RGe(average_risk, R(4, 10)) THEN "moderate"
    ELSE "low"

assess_climate_risk(locs, climate) ==
    IF locs = <<>> THEN {[average_risk |-> Zero, high_risk_locations |-> <<>>]}
    ELSE LET average_risk == RDivInt(total_risk(locs, climate), Len(locs))
         IN  {[average_risk |-> rounded,
               high_risk_locations |-> high_risk_locations(locs, climate),
               risk_level |-> exposure_level(average_risk)] :
                  rounded \in Round3(average_risk)}

assess_geopolitical_risk(locs, geopolitical) ==
    IF locs = <<>> THEN {[average_risk |-> Zero, high_risk_locations |-> <<>>]}
    ELSE LET average_risk == RDivInt(total_risk(locs, geopolitical), Len(locs))
         IN  {[average_risk |-> rounded,
               high_risk_locations |-> high_risk_locations(locs, geopolitical),
               risk_level |-> exposure_level(average_risk)] :
                  rounded \in Round3(average_risk)}

-----------------------------------------------------------------------------
(* The composite scorer                                                    *)

\* both parts weighted 0.5
calculate_overall_risk_score_equal_weights(geographic_risk, lead_time_risk) ==
    LET hhi_score == Get(geographic_risk, "hhi", Zero)
        lt_score == Get(lead_time_risk, "average_risk", Zero)
    IN  RMin(RMax(RAdd(RMul(R(5, 10), hhi_score), RMul(R(5, 10), lt_score)), Zero),
             One)

calculate_overall_risk_score_with_lead_time(geographic_risk, lead_time_risk) ==
    LET hhi_score == Get(geographic_risk, "hhi", Zero)
        lt_score == Get(lead_time_risk, "average_risk", Zero)
    IN  RMin(RMax(RAdd(RMul(R(7, 10), hhi_score), RMul(R(3, 10), lt_score)), Zero),
             One)

\* the legacy three-factor score
calculate_overall_risk_score(geographic_risk, climate_risk, geopolitical_risk) ==
    LET hhi_score == Get(geographic_risk, "hhi", Zero)
        climate_score == Get(climate_risk, "average_risk", Zero)
        geopolitical_score == Get(geopolitical_risk, "average_risk", Zero)
        overall_score == RAdd(RMul(R(4, 10), hhi_score),
                              RAdd(RMul(R(3, 10), climate_score),
                                   RMul(R(3, 10), geopolitical_score)))
    IN  RMin(overall_score, One)

\* the legacy score wired into the assessment
risk_score_of_legacy(geographic_risk, climate_risk, geopolitical_risk, lead_time_risk) ==
    calculate_overall_risk_score(geographic_risk, climate_risk, geopolitical_risk)

\* the score assess_supply_chain_risk computes from its sub-assessments
risk_score_of(geographic_risk, climate_risk, geopolitical_risk, lead_time_risk) ==
    calculate_overall_risk_score_with_lead_time(geographic_risk, lead_time_risk)

overall_risk_level(risk_score) ==
    IF RGe(risk_score, R(8, 10)) THEN "very_high"
    ELSE IF RGe(risk_score, R(6, 10)) THEN "high"
    ELSE IF RGe(risk_score, R(4, 10)) THEN "moderate"
    ELSE IF RGe(risk_score, R(2, 10)) THEN "low"
    ELSE "very_low"

\* the note alone, whatever locations are flagged
exposure_recommendations_unnamed(exposure, note, countries_note) ==
    IF Get(exposure, "risk_level", None) = "high"
    THEN {<<[note |-> note]>>}
    ELSE {<<>>}

\* a note followed, when countries are flagged, by a note joining set(countries)
exposure_recommendations(exposure, note, countries_note) ==
    IF Get(exposure, "risk_level", None) = "high"
    THEN LET flagged == Get(exposure, "high_risk_locations", <<>>)
             names == {flagged[i].country : i \in DOMAIN flagged}
         IN  IF flagged # <<>>
             THEN {<<[note |-> note], [note |-> countries_note, countries |-> order]>> :
                      order \in Orderings(names)}
             ELSE {<<[note |-> note]>>}
    ELSE {<<>>}

\* the monitor note only above 0.5
concentration_recommendations_above_half(hhi) ==
    IF RGe(hhi, R(7, 10))
    THEN <<[note |-> "Consider diversifying suppliers across more countries to reduce geographic concentration risk"]>>
    ELSE IF RGt(hhi, R(5, 10))
    THEN <<[note |-> "Monitor geographic concentration and consider adding suppliers in different regions"]>>
    ELSE <<>>

concentration_recommendations(hhi) ==
    IF RGe(hhi, R(7, 10))
    THEN <<[note |-> "Consider diversifying suppliers across more countries to reduce geographic concentration risk"]>>
    ELSE IF RGe(hhi, R(5, 10))
    THEN <<[note |-> "Monitor geographic concentration and consider adding suppliers in different regions"]>>
    ELSE <<>>

generate_recommendations(geographic_risk, climate_risk, geopolitical_risk) ==
    LET hhi == Get(geographic_risk, "hhi", Zero)
        concentration == concentration_recommendations(hhi)
        Finish(recommendations) ==
            IF recommendations = <<>>
            THEN <<[note |-> "Supply chain risk levels are acceptable. Continue monitoring for changes."]>>
            ELSE recommendations
    IN  {Finish(concentration \o climate \o geopolitical) :
            climate \in exposure_recommendations(climate_risk,
                "Implement climate risk mitigation strategies for high-risk locations",
                "Consider alternative suppliers outside high climate risk countries"),
            geopolitical \in exposure_recommendations(geopolitical_risk,
                "Develop contingency plans for geopolitical disruptions in high-risk regions",
                "Monitor political stability in")}

\* assess_supply_chain_risk past its guard: the possible outcomes, each the
\* returned value and the unrounded local risk_score it was made from
assess_locations(locs, prods, climate, geopolitical) ==
         UNION {
           LET risk_score == risk_score_of(geographic_risk, climate_risk,
                                           geopolitical_risk, lead_time_risk)
           IN  IF "raises" \in DOMAIN lead_time_risk
               THEN {[locals |-> << >>, value |-> lead_time_risk]}
               ELSE
               {[locals |-> [risk_score |-> risk_score],
                 value |->
                     [overall_risk |-> overall_risk_level(risk_score),
                      risk_score |-> rounded,
                      geographic_risk |-> geographic_risk,
                      climate_risk |-> climate_risk,
                      geopolitical_risk |-> geopolitical_risk,
                      lead_time_risk |-> lead_time_risk,
                      concentration_risk |->
                          [hhi |-> geographic_risk.hhi,
                           concentration_level |-> geographic_risk.concentration_risk,
                           countries |-> geographic_risk.countries,
                           country_distribution |-> geographic_risk.country_distribution],
                      recommendations |-> recommendations,
                      assessment_timestamp |-> None]] :
                    rounded \in Round3(risk_score),
                    recommendations \in generate_recommendations(
                        geographic_risk, climate_risk, geopolitical_risk)} :
               geographic_risk \in assess_geographic_risk(locs, climate, geopolitical),
               climate_risk \in assess_climate_risk(locs, climate),
               geopolitical_risk \in assess_geopolitical_risk(locs, geopolitical),
               lead_time_risk \in assess_lead_time_risk(prods)}

assess_supply_chain_risk_unguarded(locs, prods, climate, geopolitical) ==
    assess_locations(locs, prods, climate, geopolitical)

assess_supply_chain_risk(locs, prods, climate, geopolitical) ==
    IF locs = <<>>
    THEN {[locals |-> << >>,
           value |->
               [overall_risk |-> "unknown",
                risk_score |-> Zero,
                geographic_risk |-> << >>,
                climate_risk |-> << >>,
                geopolitical_risk |-> << >>,
                concentration_risk |-> << >>,
                recommendations |-> <<[note |-> "No locations available for risk assessment"]>>]]}
    ELSE assess_locations(locs, prods, climate, geopolitical)

-----------------------------------------------------------------------------
(* Requests and calls.  A request is a location list and a product list,   *)
(* on which the caller makes one engine call; ret records that call, prev  *)
(* the request before it and its call.                                     *)

NoCall == [op |-> "none"]

\* a service that the specification at hand leaves out
NoService == [service |-> "none"]

NoThread == [pc |-> "none"]

NoRequest == [locations |-> <<>>, products |-> <<>>, call |-> NoCall]

MaxHhiLocs == 3

SeqsUpTo(S, n) == UNION {[1..len -> S] : len \in 0..n}

\* a location dict: any of its keys may be missing
LocationDicts(types, countries) ==
    {[type |-> t, country |-> c] : t \in types, c \in countries}
    \cup {[type |-> t] : t \in types}

HhiLocations == LocationDicts({"manufacturing", "supplier"},
                              {"China", "Australia", "Unknown"})

LocationTypeArgs == {None, "manufacturing", "raw_material", "supplier"}

TablesLoaded ==
    /\ climate_risk_data = LoadClimateRiskData
    /\ geopolitical_risk_data = LoadGeopoliticalRiskData

\* the countries that the tables rate above 0.6, among those of the dicts
HashedCountries(dicts) ==
    {c \in {Get(d, "country", "Unknown") : d \in dicts} :
        is_high_risk_country(c, LoadClimateRiskData, LoadGeopoliticalRiskData)}

\* the engine is called on its own: the interpreter has fixed its iteration
\* order, and the other services of the application take no step
EngineAlone(dicts) ==
    /\ hash_order \in Arrangements(HashedCountries(dicts))
    /\ geocoding_service = NoService
    /\ now = 0
    /\ requests = <<>>
    /\ product_aware_service = NoService
    /\ loader = NoThread
    /\ handlers = <<>>

InitHhi ==
    /\ TablesLoaded
    /\ locations \in SeqsUpTo(HhiLocations, MaxHhiLocs)
    /\ products = <<>>
    /\ ret = NoCall
    /\ prev = NoRequest
    /\ EngineAlone(HhiLocations)

CalculateHhi(location_type) ==
    /\ ret = NoCall
    /\ ret' = [op |-> "calculate_hhi",
               location_type |-> location_type,
               value |-> calculate_hhi(locations, location_type)]
    /\ UNCHANGED <<climate_risk_data, geopolitical_risk_data, locations,
                   products, prev, hash_order,
                   geocoding_vars, catalog_vars>>

NextHhi == \E t \in LocationTypeArgs : CalculateHhi(t)

SpecHhi == InitHhi /\ [][NextHhi]_vars

-----------------------------------------------------------------------------
(* Calls of assess_geographic_risk                                         *)

MaxGeoLocs == 4

MaxSegLocs == 4

GeoLocations == LocationDicts({"manufacturing"},
                              {"China", "India", "Sudan", "Atlantis"})

SegLocations == LocationDicts({"raw_material", "manufacturing", "supplier"},
                              {"China", ""})

InitGeo ==
    /\ TablesLoaded
    /\ locations \in SeqsUpTo(GeoLocations, MaxGeoLocs)
    /\ products = <<>>
    /\ ret = NoCall
    /\ prev = NoRequest
    /\ EngineAlone(GeoLocations)

InitSeg ==
    /\ TablesLoaded
    /\ locations \in SeqsUpTo(SegLocations, MaxSegLocs)
    /\ products = <<>>
    /\ ret = NoCall
    /\ prev = NoRequest
    /\ EngineAlone(SegLocations)

AssessGeographicRisk ==
    /\ ret = NoCall
    /\ \E value \in assess_geographic_risk(locations, climate_risk_data,
                                           geopolitical_risk_data) :
           ret' = [op |-> "assess_geographic_risk",
                   locals |-> IF locations = <<>> THEN << >>
                              ELSE geographic_locals(locations),
                   value |-> value]
    /\ UNCHANGED <<climate_risk_data, geopolitical_risk_data, locations,
                   products, prev, hash_order,
                   geocoding_vars, catalog_vars>>

NextGeo == AssessGeographicRisk

SpecGeo == InitGeo /\ [][NextGeo]_vars

SpecSeg == InitSeg /\ [][NextGeo]_vars

\* count locations of one country
Block(country, count) ==
    [i \in 1..count |-> [type |-> "manufacturing", country |-> country]]

\* long location lists over four countries
BulkLocationLists ==
    {Block("China", a) \o Block("Australia", b) \o Block("India", c)
         \o Block("Atlantis", d) :
        a \in 14..16, b \in 8..10, c \in 5..7, d \in 4..6}

InitGeoBulk ==
    /\ TablesLoaded
    /\ locations \in BulkLocationLists
    /\ products = <<>>
    /\ ret = NoCall
    /\ prev = NoRequest
    /\ EngineAlone(GeoLocations)

SpecGeoBulk == InitGeoBulk /\ [][NextGeo]_vars

-----------------------------------------------------------------------------
(* Calls of assess_supply_chain_risk                                       *)

MaxAssessLocs == 3

MaxProducts == 3

MaxPairLocs == 2

AssessLocations == LocationDicts({"manufacturing"}, {"China", "Sudan"})

PairLocations ==
    {[type |-> "manufacturing", country |-> c] : c \in {"China", "Sudan", "Australia"}}

InStockAustralia == <<"I", "n", " ", "S", "t", "o", "c", "k", " ",
                      "A", "u", "s", "t", "r", "a", "l", "i", "a">>

TwoWeeks == <<"2", " ", "w", "e", "e", "k", "s">>

\* a product dict: with a lead time, or without a raw record
ProductDicts(texts) ==
    {[name |-> "p", raw |-> [lead_time |-> text]] : text \in texts}
    \cup {[name |-> "p"]}

AssessProducts == ProductDicts({InStockAustralia, TwoWeeks})

PairProductLists ==
    {<<>>, <<[name |-> "p", raw |-> [lead_time |-> TwoWeeks]]>>, <<[name |-> "p"]>>}

InitAssess ==
    /\ TablesLoaded
    /\ locations \in SeqsUpTo(AssessLocations, MaxAssessLocs)
    /\ products \in SeqsUpTo(AssessProducts, MaxProducts)
    /\ ret = NoCall
    /\ prev = NoRequest
    /\ EngineAlone(AssessLocations)

InitPair ==
    /\ TablesLoaded
    /\ locations \in SeqsUpTo(PairLocations, MaxPairLocs)
    /\ products \in PairProductLists
    /\ ret = NoCall
    /\ prev = NoRequest
    /\ EngineAlone(PairLocations)

AssessSupplyChainRisk ==
    /\ ret = NoCall
    /\ \E outcome \in assess_supply_chain_risk(locations, products, climate_risk_data,
                                               geopolitical_risk_data) :
           ret' = [op |-> "assess_supply_chain_risk",
                   locals |-> outcome.locals,
                   value |-> outcome.value]
    /\ UNCHANGED <<climate_risk_data, geopolitical_risk_data, locations,
                   products, prev, hash_order,
                   geocoding_vars, catalog_vars>>

\* the caller turns to its next request once the call on this one returned
NextRequest(location_lists, product_lists) ==
    /\ ret # NoCall
    /\ locations' \in location_lists
    /\ products' \in product_lists
    /\ prev' = [locations |-> locations, products |-> products, call |-> ret]
    /\ ret' = NoCall
    /\ UNCHANGED <<climate_risk_data, geopolitical_risk_data, hash_order,
                   geocoding_vars, catalog_vars>>

MaxRecommendLocs == 3

RecommendLocations ==
    LocationDicts({"manufacturing"}, {"China", "Sudan", "Australia", "Egypt"})

InitRecommend ==
    /\ TablesLoaded
    /\ locations \in SeqsUpTo(RecommendLocations, MaxRecommendLocs)
    /\ products = <<>>
    /\ ret = NoCall
    /\ prev = NoRequest
    /\ EngineAlone(RecommendLocations)

NextAssess == AssessSupplyChainRisk

SpecAssess == InitAssess /\ [][NextAssess]_vars

SpecRecommend == InitRecommend /\ [][NextAssess]_vars

NextPair ==
    \/ AssessSupplyChainRisk
    \/ NextRequest(SeqsUpTo(PairLocations, MaxPairLocs), PairProductLists)

SpecPair == InitPair /\ [][NextPair]_vars

-----------------------------------------------------------------------------
(* Calls of _assess_climate_risk and _assess_geopolitical_risk             *)

MaxExposureLocs == 4

\* the mean the assessor classifies, before it is rounded for the report
exposure_locals(locs, table) ==
    IF locs = <<>> THEN << >>
    ELSE [average_risk |-> RDivInt(total_risk(locs, table), Len(locs))]

InitExposure ==
    /\ TablesLoaded
    /\ locations \in SeqsUpTo(GeoLocations, MaxExposureLocs)
    /\ products = <<>>
    /\ ret = NoCall
    /\ prev = NoRequest
    /\ EngineAlone(GeoLocations)

AssessClimateRisk ==
    /\ ret = NoCall
    /\ \E value \in assess_climate_risk(locations, climate_risk_data) :
           ret' = [op |-> "_assess_climate_risk",
                   locals |-> exposure_locals(locations, climate_risk_data),
                   value |-> value]
    /\ UNCHANGED <<climate_risk_data, geopolitical_risk_data, locations,
                   products, prev, hash_order,
                   geocoding_vars, catalog_vars>>

AssessGeopoliticalRisk ==
    /\ ret = NoCall
    /\ \E value \in assess_geopolitical_risk(locations, geopolitical_risk_data) :
           ret' = [op |-> "_assess_geopolitical_risk",
                   locals |-> exposure_locals(locations, geopolitical_risk_data),
                   value |-> value]
    /\ UNCHANGED <<climate_risk_data, geopolitical_risk_data, locations,
                   products, prev, hash_order,
                   geocoding_vars, catalog_vars>>

NextExposure ==
    \/ AssessClimateRisk
    \/ AssessGeopoliticalRisk

SpecExposure == InitExposure /\ [][NextExposure]_vars

\* long location lists, nearly all of them in China
ExposureBulkLocationLists ==
    {Block("China", a) \o Block("India", b) : a \in 190..210, b \in 0..2}

InitExposureBulk ==
    /\ TablesLoaded
    /\ locations \in ExposureBulkLocationLists
    /\ products = <<>>
    /\ ret = NoCall
    /\ prev = NoRequest
    /\ EngineAlone(GeoLocations)

SpecExposureBulk == InitExposureBulk /\ [][NextExposure]_vars

-----------------------------------------------------------------------------
(* Calls of _assess_lead_time_risk.  A lead-time case is a text together   *)
(* with what it says: in stock in Australia, a count of weeks, a count of  *)
(* days, or nothing usable.                                                *)

MaxLeadProducts == 1

MaxKeyProducts == 1

MaxBatchProducts == 3

WholeNumbers ==
    {[text |-> <<"0">>, value |-> R(0, 1)],
     [text |-> <<"2">>, value |-> R(2, 1)],
     [text |-> <<"3">>, value |-> R(3, 1)],
     [text |-> <<"4">>, value |-> R(4, 1)],
     [text |-> <<"6">>, value |-> R(6, 1)],
     [text |-> <<"7">>, value |-> R(7, 1)],
     [text |-> <<"1", "0">>, value |-> R(10, 1)],
     [text |-> <<"1", "1">>, value |-> R(11, 1)],
     [text |-> <<"1", "5">>, value |-> R(15, 1)],
     [text |-> <<"1", "6">>, value |-> R(16, 1)],
     [text |-> <<"3", "0">>, value |-> R(30, 1)],
     [text |-> <<"3", "1">>, value |-> R(31, 1)],
     [text |-> <<"5", "0">>, value |-> R(50, 1)],
     [text |-> <<"5", "1">>, value |-> R(51, 1)]}

DecimalNumbers ==
    {[text |-> <<"6", ".", "5">>, value |-> R(13, 2)],
     [text |-> <<"1", "0", ".", "5">>, value |-> R(21, 2)],
     [text |-> <<"3", ".", "0">>, value |-> R(3, 1)]}

WeekUnits == {<<"w", "e", "e", "k", "s">>, <<"w", "e", "e", "k">>, <<"W", "E", "E", "K", "S">>}

DayUnits == {<<"d", "a", "y", "s">>, <<"D", "a", "y">>}

Separators == {<<>>, <<" ">>}

CountCases ==
    {[text |-> number.text \o sep \o unit, kind |-> "weeks", count |-> number.value] :
        number \in WholeNumbers \cup DecimalNumbers, sep \in Separators,
        unit \in WeekUnits}
    \cup
    {[text |-> number.text \o sep \o unit, kind |-> "days", count |-> number.value] :
        number \in WholeNumbers, sep \in Separators, unit \in DayUnits}

OtherCases ==
    {[text |-> <<"I", "n", " ", "S", "t", "o", "c", "k", " ", "A", "u", "s", "t", "r", "a", "l", "i", "a">>,
      kind |-> "in_stock", count |-> R(0, 1)],
     [text |-> <<"i", "n", "-", "s", "t", "o", "c", "k", " ", "a", "u", "s", "t", "r", "a", "l", "i", "a">>,
      kind |-> "in_stock", count |-> R(0, 1)],
     [text |-> <<"I", "N", " ", "S", "T", "O", "C", "K", " ", "A", "U", "S", "T", "R", "A", "L", "I", "A", " ", "9", " ", "w", "e", "e", "k", "s">>,
      kind |-> "in_stock", count |-> R(0, 1)],
     [text |-> <<"2", " ", "d", "a", "y", "s", ",", " ", "I", "n", "-", "S", "t", "o", "c", "k", " ", "A", "u", "s", "t", "r", "a", "l", "i", "a">>,
      kind |-> "in_stock", count |-> R(0, 1)],
     [text |-> <<"3", " ", "d", "a", "y", "s", " ", "o", "r", " ", "2", " ", "w", "e", "e", "k", "s">>,
      kind |-> "weeks", count |-> R(2, 1)],
     [text |-> <<"4", " ", "d", "a", "y", "s", " ", "1", "2", " ", "w", "e", "e", "k", "s">>,
      kind |-> "weeks", count |-> R(12, 1)],
     [text |-> <<"1", "2", " ", "w", "e", "e", "k", "s", " ", "4", " ", "d", "a", "y", "s">>,
      kind |-> "weeks", count |-> R(12, 1)],
     [text |-> <<" ", "8", " ", "W", "e", "e", "k", "s", " ">>,
      kind |-> "weeks", count |-> R(8, 1)],
     [text |-> <<"s", "o", "o", "n">>,
      kind |-> "unknown", count |-> R(0, 1)],
     [text |-> <<"w", "e", "e", "k", " ", "4">>,
      kind |-> "unknown", count |-> R(0, 1)],
     [text |-> <<"7">>,
      kind |-> "unknown", count |-> R(0, 1)],
     [text |-> <<" ", " ">>,
      kind |-> "unknown", count |-> R(0, 1)]}

LeadTimeCases == CountCases \cup OtherCases

\* products as the lead-time loop may meet them
LeadTimeProducts ==
    {[name |-> "p", raw |-> [lead_time |-> c.text]] : c \in LeadTimeCases}
    \cup {[name |-> "p", raw |-> [lead_time |-> <<>>]],
          [name |-> "p", raw |-> << >>],
          [name |-> "p", raw |-> [code |-> <<"x">>]],
          [name |-> "p"],
          [raw |-> [lead_time |-> TwoWeeks]],
          [name |-> "p", raw |-> PyNone],
          PyNone}

ElevenWeeks == <<"1", "1", " ", "w", "e", "e", "k", "s">>

SevenWeeks == <<"7", " ", "w", "e", "e", "k", "s">>

KeyTexts == {<<>>, TwoWeeks, ElevenWeeks, InStockAustralia}

\* raw records with any of the three lead-time keys
KeyProducts ==
    {[name |-> "p", raw |-> raw] :
        raw \in UNION {[keys -> KeyTexts] :
                         keys \in SUBSET {"lead_time", "leadTime", "availability"}}}

BatchProducts == ProductDicts({InStockAustralia, TwoWeeks, SevenWeeks, ElevenWeeks})

InitLeadTime ==
    /\ TablesLoaded
    /\ locations = <<>>
    /\ products \in SeqsUpTo(LeadTimeProducts, MaxLeadProducts)
    /\ ret = NoCall
    /\ prev = NoRequest
    /\ EngineAlone({})

InitLeadKeys ==
    /\ TablesLoaded
    /\ locations = <<>>
    /\ products \in SeqsUpTo(KeyProducts, MaxKeyProducts)
    /\ ret = NoCall
    /\ prev = NoRequest
    /\ EngineAlone({})

InitLeadBatch ==
    /\ TablesLoaded
    /\ locations = <<>>
    /\ products \in SeqsUpTo(BatchProducts, MaxBatchProducts)
    /\ ret = NoCall
    /\ prev = NoRequest
    /\ EngineAlone({})

\* a lead-time assessor that pops the products off the caller's list
AssessLeadTimeRiskConsuming ==
    /\ ret = NoCall
    /\ \E value \in assess_lead_time_risk(products) :
           ret' = [op |-> "_assess_lead_time_risk",
                   locals |-> IF "raises" \in DOMAIN value THEN << >>
                              ELSE lead_time_locals(products),
                   value |-> value]
    /\ products' = <<>>
    /\ UNCHANGED <<climate_risk_data, geopolitical_risk_data, locations,
                   prev, hash_order, geocoding_vars, catalog_vars>>

AssessLeadTimeRisk ==
    /\ ret = NoCall
    /\ \E value \in assess_lead_time_risk(products) :
           ret' = [op |-> "_assess_lead_time_risk",
                   locals |-> IF "raises" \in DOMAIN value THEN << >>
                              ELSE lead_time_locals(products),
                   value |-> value]
    /\ UNCHANGED <<climate_risk_data, geopolitical_risk_data, locations,
                   products, prev, hash_order,
                   geocoding_vars, catalog_vars>>

NextLeadTime == AssessLeadTimeRisk

SpecLeadTime == InitLeadTime /\ [][NextLeadTime]_vars

SpecLeadKeys == InitLeadKeys /\ [][NextLeadTime]_vars

SpecLeadBatch == InitLeadBatch /\ [][NextLeadTime]_vars

-----------------------------------------------------------------------------
(* Claims on calculate_hhi                                                 *)

CountryOf(loc) == IF "country" \in DOMAIN loc THEN loc.country ELSE "Unknown"

\* positions of the locations the filter keeps (all of them without filter)
Kept(locs, t) ==
    {i \in 1..Len(locs) : t = None \/ ("type" \in DOMAIN locs[i] /\ locs[i].type = t)}

KeptCountries(locs, t) == {CountryOf(locs[i]) : i \in Kept(locs, t)}

InCountry(locs, t, c) == {i \in Kept(locs, t) : CountryOf(locs[i]) = c}

RECURSIVE SumOfSquares(_, _, _)
SumOfSquares(locs, t, cs) ==
    IF cs = {} THEN 0
    ELSE LET c == CHOOSE x \in cs : TRUE
             size == Cardinality(InCountry(locs, t, c))
         IN  size * size + SumOfSquares(locs, t, cs \ {c})

EvenlySplit(locs, t) ==
    \A c1, c2 \in KeptCountries(locs, t) :
        Cardinality(InCountry(locs, t, c1)) = Cardinality(InCountry(locs, t, c2))

\* C1: calculate_hhi returns the sum over countries of (kept locations in the
\* country / kept locations) squared, 0.0 when the list is empty or nothing
\* matches the filter, and 1/n when the kept locations are split evenly over
\* n countries.
C1_HhiIsSumOfSquaredShares ==
    ret.op = "calculate_hhi" =>
        LET t == ret.location_type
            total == Cardinality(Kept(locations, t))
            cs == KeptCountries(locations, t)
        IN  /\ total = 0 => ret.value = Zero
            /\ total > 0 =>
                   ret.value.n * (total * total)
                       = SumOfSquares(locations, t, cs) * ret.value.d
            /\ (total > 0 /\ EvenlySplit(locations, t)) =>
                   ret.value = [n |-> 1, d |-> Cardinality(cs)]

\* China, China, Australia, all manufacturing, filtered by manufacturing: 5/9
C1_Witness ==
    /\ ret.op = "calculate_hhi"
    /\ ret.location_type = "manufacturing"
    /\ locations = <<[type |-> "manufacturing", country |-> "China"],
                     [type |-> "manufacturing", country |-> "China"],
                     [type |-> "manufacturing", country |-> "Australia"]>>
    /\ ret.value = [n |-> 5, d |-> 9]

\* C2: the value of calculate_hhi lies in [0, 1], and for a non-empty kept
\* list it is 1 exactly when all kept locations have the same country.
C2_HhiBounds ==
    ret.op = "calculate_hhi" =>
        /\ ret.value.d > 0
        /\ 0 <= ret.value.n
        /\ ret.value.n <= ret.value.d
        /\ Kept(locations, ret.location_type) # {} =>
               ((ret.value.n = ret.value.d)
                   <=> Cardinality(KeptCountries(locations, ret.location_type)) = 1)

C2_Witness ==
    /\ ret.op = "calculate_hhi"
    /\ ret.location_type = None
    /\ Len(locations) = 3
    /\ Cardinality(KeptCountries(locations, None)) = 1
    /\ \E i \in 1..3 : "country" \notin DOMAIN locations[i]
    /\ \E i \in 1..3 : "country" \in DOMAIN locations[i]
    /\ ret.value = [n |-> 1, d |-> 1]


-----------------------------------------------------------------------------
(* Claims on the composite score                                           *)

ExactHhi(locs) ==
    IF locs = <<>> THEN Zero
    ELSE R(SumOfSquares(locs, None, KeptCountries(locs, None)), Len(locs) * Len(locs))

ExactAverageLeadTime(prods) ==
    IF prods = <<>> THEN Zero ELSE RDivInt(lead_time_total(prods), Len(prods))

WeightedSum(hhi, lead_time) ==
    RMin(RMax(RAdd(RMul(R(7, 10), hhi), RMul(R(3, 10), lead_time)), Zero), One)

\* x has at most three decimals
IsThousandths(x) == 1000 % x.d = 0

\* x and y differ by at most 0.0005
Within(x, y) == RLe(RSub(x, y), R(1, 2000)) /\ RLe(RSub(y, x), R(1, 2000))

Assessed == ret.op = "assess_supply_chain_risk" /\ locations # <<>>

\* C3 as claimed: the returned risk_score equals 0.7 * overall HHI + 0.3 *
\* average lead-time risk, clamped to [0,1].
C3_ScoreIsExactWeightedSum ==
    Assessed =>
        ret.value.risk_score
            = WeightedSum(ExactHhi(locations), ExactAverageLeadTime(products))

\* C3 as amended: the returned risk_score is 0.7 * the reported overall HHI
\* + 0.3 * the reported average lead-time risk, clamped to [0,1] and rounded
\* to three decimals, where the reported HHI and average are the overall HHI
\* and the mean lead-time risk rounded to three decimals; without products
\* the lead-time term is 0; HHI 0.5 and average 0.2 give 0.41.
C3_ScoreIsRoundedWeightedSum ==
    Assessed =>
        LET hhi == ret.value.geographic_risk.hhi
            lead_time == ret.value.lead_time_risk.average_risk
            score == ret.value.risk_score
        IN  /\ IsThousandths(hhi) /\ Within(hhi, ExactHhi(locations))
            /\ IsThousandths(lead_time)
            /\ Within(lead_time, ExactAverageLeadTime(products))
            /\ IsThousandths(score) /\ Within(score, WeightedSum(hhi, lead_time))
            /\ products = <<>> =>
                   lead_time = Zero /\ Within(score, RMul(R(7, 10), hhi))
            /\ (hhi = R(1, 2) /\ lead_time = R(1, 5)) => score = R(41, 100)

\* HHI 5/9 reported as 0.556, one product at 0.2: 0.3892 + 0.06 gives 0.449
C3_Witness ==
    /\ Assessed
    /\ ExactHhi(locations) = R(5, 9)
    /\ Len(products) = 1
    /\ ret.value.lead_time_risk.average_risk = R(1, 5)
    /\ ret.value.risk_score = R(449, 1000)

ScoreBucket(score) ==
    IF RGe(score, R(8, 10)) THEN "very_high"
    ELSE IF RGe(score, R(6, 10)) THEN "high"
    ELSE IF RGe(score, R(4, 10)) THEN "moderate"
    ELSE IF RGe(score, R(2, 10)) THEN "low"
    ELSE "very_low"

\* C4: the returned overall_risk is the bucket of the returned risk_score
\* (>= 0.8 very_high, >= 0.6 high, >= 0.4 moderate, >= 0.2 low, else very_low).
C4_LevelIsBucketOfReturnedScore ==
    Assessed => ret.value.overall_risk = ScoreBucket(ret.value.risk_score)

\* the number of countries holding exactly size locations
CountriesOfSize(locs, size) ==
    Cardinality({c \in KeptCountries(locs, None) :
                    Cardinality(InCountry(locs, None, c)) = size})

\* the same per-country counts up to a renaming of the countries
SameUpToRenaming(first, second) ==
    /\ Len(first) = Len(second)
    /\ \A size \in 1..Len(first) :
           CountriesOfSize(first, size) = CountriesOfSize(second, size)

BothAssessed ==
    /\ Assessed
    /\ prev.call.op = "assess_supply_chain_risk"
    /\ prev.locations # <<>>

\* C5: two non-empty location lists with the same per-country counts up to a
\* renaming of the countries, assessed with the same products, get the same
\* risk_score and the same overall_risk, whatever the tables say of them.
C5_ScoreIgnoresRiskTables ==
    (/\ BothAssessed
     /\ prev.products = products
     /\ SameUpToRenaming(prev.locations, locations)) =>
        /\ ret.value.risk_score = prev.call.value.risk_score
        /\ ret.value.overall_risk = prev.call.value.overall_risk

C5_Witness ==
    /\ BothAssessed
    /\ prev.products = products
    /\ products # <<>>
    /\ SameUpToRenaming(prev.locations, locations)
    /\ Len(locations) = 2
    /\ ret.value.climate_risk.average_risk # prev.call.value.climate_risk.average_risk
    /\ ret.value.geopolitical_risk.average_risk
           # prev.call.value.geopolitical_risk.average_risk
    /\ ret.value.risk_score = prev.call.value.risk_score

\* C6: with an empty location list assess_supply_chain_risk returns, whatever
\* the products, overall_risk 'unknown', risk_score 0.0, empty geographic,
\* climate, geopolitical and concentration sub-assessments and the single
\* recommendation that no locations are available.
C6_EmptyLocationsShortCircuit ==
    (ret.op = "assess_supply_chain_risk" /\ locations = <<>>) =>
        /\ DOMAIN ret.value = {"overall_risk", "risk_score", "geographic_risk",
                               "climate_risk", "geopolitical_risk",
                               "concentration_risk", "recommendations"}
        /\ ret.value.overall_risk = "unknown"
        /\ ret.value.risk_score = [n |-> 0, d |-> 1]
        /\ DOMAIN ret.value.geographic_risk = {}
        /\ DOMAIN ret.value.climate_risk = {}
        /\ DOMAIN ret.value.geopolitical_risk = {}
        /\ DOMAIN ret.value.concentration_risk = {}
        /\ Len(ret.value.recommendations) = 1
        /\ ret.value.recommendations[1].note
               = "No locations available for risk assessment"

C6_Witness ==
    /\ ret.op = "assess_supply_chain_risk"
    /\ locations = <<>>
    /\ Len(products) = 3
    /\ ret.value.overall_risk = "unknown"

-----------------------------------------------------------------------------
(* Claims on assess_geographic_risk                                        *)

GeoAssessed == ret.op = "assess_geographic_risk" /\ locations # <<>>

HhiBucket(hhi) ==
    IF RGe(hhi, R(7, 10)) THEN "very_high"
    ELSE IF RGe(hhi, R(5, 10)) THEN "high"
    ELSE IF RGe(hhi, R(3, 10)) THEN "moderate"
    ELSE "low"

\* C7: the returned concentration_risk is the bucket of the returned overall
\* HHI (>= 0.7 very_high, >= 0.5 high, >= 0.3 moderate, else low).
C7_LevelIsBucketOfReturnedHhi ==
    GeoAssessed => ret.value.concentration_risk = HhiBucket(ret.value.hhi)

\* the positions of segment `source` whose country, one of `allowed`, is the
\* country of some location of segment `target`
Overlapping(locs, source, target, allowed) ==
    {i \in Kept(locs, source) :
        /\ CountryOf(locs[i]) \in allowed
        /\ \E j \in Kept(locs, target) : CountryOf(locs[j]) = CountryOf(locs[i])}

OverlapFraction(locs, source, target, allowed) ==
    IF Kept(locs, source) = {} THEN Zero
    ELSE R(Cardinality(Overlapping(locs, source, target, allowed)),
           Cardinality(Kept(locs, source)))

AllCountries(locs) == KeptCountries(locs, None)

\* C8 as claimed: the overlap ratio of segment A to segment B is the number
\* of A's locations whose country appears among B's countries, over the
\* number of A's locations, 0.0 for an empty A, for every country string.
C8_OverlapCountsEveryCountry ==
    GeoAssessed =>
        /\ ret.locals.overlap_m2m
               = OverlapFraction(locations, "raw_material", "manufacturing",
                                 AllCountries(locations))
        /\ ret.locals.overlap_manu_to_store
               = OverlapFraction(locations, "manufacturing", "supplier",
                                 AllCountries(locations))

\* C8 as amended: the overlap ratio of segment A to segment B is the number
\* of A's locations whose country is a non-empty string that appears among
\* B's countries, over the number of A's locations, and 0.0 for an empty A;
\* for both pairs.
C8_OverlapCountsNonEmptyCountries ==
    GeoAssessed =>
        /\ ret.locals.overlap_m2m
               = OverlapFraction(locations, "raw_material", "manufacturing",
                                 AllCountries(locations) \ {""})
        /\ ret.locals.overlap_manu_to_store
               = OverlapFraction(locations, "manufacturing", "supplier",
                                 AllCountries(locations) \ {""})

\* raw materials in "" and China, manufacturing in "" and China: 1/2
C8_Witness ==
    /\ GeoAssessed
    /\ {CountryOf(locations[i]) : i \in Kept(locations, "raw_material")} = {"", "China"}
    /\ {CountryOf(locations[i]) : i \in Kept(locations, "manufacturing")} = {"", "China"}
    /\ ret.locals.overlap_m2m = [n |-> 1, d |-> 2]

\* the overlap ratios a segment of up to MaxSegLocs + 1 locations can have
Ratios == {R(a, b) : a \in 0..(MaxSegLocs + 1), b \in 1..(MaxSegLocs + 1)}

SegmentHhi(locs, t) ==
    IF Kept(locs, t) = {} THEN Zero
    ELSE R(SumOfSquares(locs, t, KeptCountries(locs, t)),
           Cardinality(Kept(locs, t)) * Cardinality(Kept(locs, t)))

Adjusted(locs, first, second, adjusted, overlap) ==
    LET sum == RAdd(SegmentHhi(locs, first), SegmentHhi(locs, second))
    IN  \* adjusted = (sum / 2) * (1 - overlap / 2)
        /\ 4 * adjusted.n * sum.d * overlap.d
               = adjusted.d * sum.n * (2 * overlap.d - overlap.n)
        \* 0 <= base / 2 <= adjusted <= base
        /\ adjusted.n >= 0
        /\ 4 * adjusted.n * sum.d >= sum.n * adjusted.d
        /\ 2 * adjusted.n * sum.d <= sum.n * adjusted.d

\* C9: for both segment pairs the adjusted HHI is base * (1 - 0.5 * overlap)
\* with base the mean of the two segment HHIs; it lies between half the base
\* and the base, and for a fixed base it does not grow with the overlap.
C9_AdjustedSegmentHhi ==
    GeoAssessed =>
        /\ Adjusted(locations, "raw_material", "manufacturing",
                    ret.locals.adj_seg_m2m, ret.locals.overlap_m2m)
        /\ Adjusted(locations, "manufacturing", "supplier",
                    ret.locals.adj_seg_manu_to_store, ret.locals.overlap_manu_to_store)
        /\ \A less \in Ratios :
               RLe(less, One) /\ RLe(less, ret.locals.overlap_m2m) =>
                   RLe(ret.locals.adj_seg_m2m, adj_seg(ret.locals.base_seg_m2m, less))
        /\ \A more \in Ratios :
               RLe(more, One) /\ RGe(more, ret.locals.overlap_manu_to_store) =>
                   RGe(ret.locals.adj_seg_manu_to_store,
                       adj_seg(ret.locals.base_seg_manu_to_store, more))

\* half of the raw materials share a country with manufacturing
C9_Witness ==
    /\ GeoAssessed
    /\ ret.locals.overlap_m2m = [n |-> 1, d |-> 2]
    /\ ret.locals.base_seg_m2m = [n |-> 3, d |-> 4]
    /\ ret.locals.adj_seg_m2m = [n |-> 9, d |-> 16]

Flagged(locs) ==
    {c \in AllCountries(locs) :
        \/ c \in DOMAIN climate_risk_data /\ RGe(climate_risk_data[c], R(7, 10))
        \/ c \in DOMAIN geopolitical_risk_data
               /\ RGe(geopolitical_risk_data[c], R(7, 10))}

ExpectedNotes(locs) ==
    (IF RGe(ExactHhi(locs), R(1, 2))
     THEN <<"High geographic concentration">> ELSE <<>>)
    \o (IF Cardinality(AllCountries(locs)) <= 2
        THEN <<"Limited geographic diversity">> ELSE <<>>)
    \o (IF Flagged(locs) # {} THEN <<"High-risk countries">> ELSE <<>>)

\* C10: risk_factors holds, in this order and nothing else, the concentration
\* note iff the overall HHI >= 0.5, the diversity note iff there are at most
\* 2 distinct countries, and the high-risk-countries note iff some country of
\* the list has climate or geopolitical risk >= 0.7 in the tables; a country
\* absent from a table is never flagged.
C10_RiskFactors ==
    GeoAssessed =>
        LET notes == ret.value.risk_factors
        IN  /\ [i \in DOMAIN notes |-> notes[i].note] = ExpectedNotes(locations)
            /\ Flagged(locations) # {} =>
                   /\ Range(notes[Len(notes)].list) = Flagged(locations)
                   /\ Len(notes[Len(notes)].list) = Cardinality(Flagged(locations))

\* India (climate 0.7) and a country of neither table: all three notes
C10_Witness ==
    /\ GeoAssessed
    /\ AllCountries(locations) = {"India", "Atlantis"}
    /\ Len(ret.value.risk_factors) = 3
    /\ ret.value.risk_factors[3].list = <<"India">>

-----------------------------------------------------------------------------
(* Claims on the exposure assessors                                        *)

ExposureAssessed == ret.op \in {"_assess_climate_risk", "_assess_geopolitical_risk"}

ExposureTable ==
    IF ret.op = "_assess_climate_risk" THEN climate_risk_data
    ELSE geopolitical_risk_data

\* the table value of the location's country, 0.5 for a country not listed
TableValue(loc, table) ==
    IF CountryOf(loc) \in DOMAIN table THEN table[CountryOf(loc)] ELSE R(1, 2)

RECURSIVE TableSum(_, _)
\* over the countries cs: locations in the country times its table value
TableSum(locs, cs) ==
    IF cs = {} THEN Zero
    ELSE LET c == CHOOSE x \in cs : TRUE
             here == InCountry(locs, None, c)
             value == TableValue(locs[CHOOSE i \in here : TRUE], ExposureTable)
         IN  RAdd(RMul(R(Cardinality(here), 1), value), TableSum(locs, cs \ {c}))

TableMean(locs) == RDivInt(TableSum(locs, KeptCountries(locs, None)), Len(locs))

AverageBucket(average) ==
    IF RGe(average, R(6, 10)) THEN "high"
    ELSE IF RGe(average, R(4, 10)) THEN "moderate"
    ELSE "low"

\* C11: for both assessors the returned average_risk is the mean over all
\* input locations of the table value of the location's country (0.5 for a
\* country not in the table or a location without one, every location
\* counted), reported to three decimals; an empty list gives average 0.0 and
\* no high-risk locations; and the returned risk_level is high when the
\* returned average is >= 0.6, moderate when it is >= 0.4, else low.
C11_ExposureAverageAndLevel ==
    ExposureAssessed =>
        IF locations = <<>>
        THEN /\ ret.value.average_risk = Zero
             /\ ret.value.high_risk_locations = <<>>
        ELSE /\ IsThousandths(ret.value.average_risk)
             /\ Within(ret.value.average_risk, TableMean(locations))
             /\ ret.value.risk_level = AverageBucket(ret.value.average_risk)

\* positions of the locations whose table value is >= 0.7
HighPositions(locs, table) ==
    {i \in 1..Len(locs) : RGe(TableValue(locs[i], table), R(7, 10))}

\* the j-th of them in input order
HighPosition(locs, table, j) ==
    CHOOSE at \in HighPositions(locs, table) :
        Cardinality({q \in HighPositions(locs, table) : q < at}) = j - 1

\* C12: for both assessors high_risk_locations has exactly one entry for each
\* input location whose country's table value is >= 0.7, duplicates kept and
\* in input order, each entry carrying the country and its table value as the
\* score; no location below 0.7 and no location of a country missing from the
\* table appears in it.
C12_HighRiskLocations ==
    ExposureAssessed =>
        LET high == ret.value.high_risk_locations
            table == ExposureTable
        IN  /\ Len(high) = Cardinality(HighPositions(locations, table))
            /\ \A j \in DOMAIN high :
                   LET location == locations[HighPosition(locations, table, j)]
                   IN  /\ high[j].country = CountryOf(location)
                       /\ high[j].country \in DOMAIN table
                       /\ high[j].risk_level = table[high[j].country]
                       /\ RGe(high[j].risk_level, R(7, 10))

\* climate: India, a country of no table, Sudan, India again
C12_Witness ==
    /\ ret.op = "_assess_climate_risk"
    /\ [i \in DOMAIN locations |-> CountryOf(locations[i])]
           = <<"India", "Atlantis", "Sudan", "India">>
    /\ [j \in DOMAIN ret.value.high_risk_locations |->
           <<ret.value.high_risk_locations[j].country,
             ret.value.high_risk_locations[j].risk_level>>]
           = <<<<"India", R(7, 10)>>, <<"Sudan", R(8, 10)>>, <<"India", R(7, 10)>>>>

-----------------------------------------------------------------------------
(* Claims on the lead-time assessor                                        *)

LeadTimeCalled == ret.op = "_assess_lead_time_risk"

LeadTimeReturned == LeadTimeCalled /\ "raises" \notin DOMAIN ret.value

\* the cases that say what the text of the i-th item means
CasesOf(i) == {c \in LeadTimeCases : c.text = ret.value.items[i].lead_time}

\* the week count a case with a count stands for
WeeksOf(c) == IF c.kind = "weeks" THEN c.count ELSE RDivInt(c.count, 5)

Counted(i) == {c \in CasesOf(i) : c.kind \in {"weeks", "days"}}

\* C13: a text without the in-stock phrase from which a week count w is
\* extracted has the risk 0.2 when w <= 3, 0.6 when 3 < w <= 6 and 0.9 when
\* w > 10 (2 and 3 weeks give 0.2, 4 and 6 weeks 0.6, 11 weeks 0.9).
C13_WeekBuckets ==
    LeadTimeReturned =>
        \A i \in DOMAIN products : \A c \in Counted(i) :
            LET w == WeeksOf(c)
                risk == ret.value.items[i].risk
            IN  /\ RLe(w, R(3, 1)) => risk = R(2, 10)
                /\ (RGt(w, R(3, 1)) /\ RLe(w, R(6, 1))) => risk = R(6, 10)
                /\ RGt(w, R(10, 1)) => risk = R(9, 10)

Interpolated(w) == RAdd(R(6, 10), RMul(RSub(w, R(6, 1)), R(625, 10000)))

Between6And10(i) ==
    {c \in Counted(i) : RGt(WeeksOf(c), R(6, 1)) /\ RLe(WeeksOf(c), R(10, 1))}

\* C14 as claimed: for a week count w with 6 < w <= 10 the product carries
\* the risk 0.6 + (w - 6) * 0.0625 exactly ("7 weeks" carries 0.6625).
C14_ItemCarriesExactInterpolation ==
    LeadTimeReturned =>
        \A i \in DOMAIN products : \A c \in Between6And10(i) :
            ret.value.items[i].risk = Interpolated(WeeksOf(c))

\* C14 as amended: for a week count w with 6 < w <= 10 the classifier's value
\* is exactly 0.6 + (w - 6) * 0.0625 and at most 0.85; the item of the
\* product reports that value rounded to three decimals.
C14_InterpolatedRiskIsRoundedInItem ==
    LeadTimeReturned =>
        \A i \in DOMAIN products : \A c \in Between6And10(i) :
            /\ ret.locals[i].score = Interpolated(WeeksOf(c))
            /\ RLe(ret.locals[i].score, R(85, 100))
            /\ IsThousandths(ret.value.items[i].risk)
            /\ Within(ret.value.items[i].risk, Interpolated(WeeksOf(c)))

\* "7 weeks": 0.6625 in the classifier, 0.662 in the item
C14_Witness ==
    /\ LeadTimeReturned
    /\ Len(products) = 1
    /\ ret.value.items[1].lead_time = SevenWeeks
    /\ ret.locals[1].score = R(6625, 10000)
    /\ ret.value.items[1].risk = R(662, 1000)

\* C15: the rules apply in a fixed order, whatever the case of the letters: a
\* text with the in-stock-Australia phrase (with a space or a hyphen) scores
\* 0.0 even when it also holds a count; otherwise a count of weeks is taken
\* in preference to a count of days of the same text; a count of days is
\* taken only without a count of weeks, and divided by 5.
C15_RulePriority ==
    LeadTimeReturned =>
        \A i \in DOMAIN products : \A c \in CasesOf(i) :
            /\ c.kind = "in_stock" =>
                   /\ ret.locals[i].score = Zero
                   /\ ret.value.items[i].risk = Zero
            /\ c.kind = "weeks" =>
                   /\ "weeks" \in DOMAIN ret.locals[i]
                   /\ ret.locals[i].weeks = c.count
            /\ c.kind = "days" =>
                   /\ "weeks" \in DOMAIN ret.locals[i]
                   /\ ret.locals[i].weeks = RDivInt(c.count, 5)

\* "3 days or 2 weeks" counts 2 weeks
C15_Witness ==
    /\ LeadTimeReturned
    /\ Len(products) = 1
    /\ ret.value.items[1].lead_time = <<"3", " ", "d", "a", "y", "s", " ", "o", "r", " ", "2", " ", "w", "e", "e", "k", "s">>
    /\ ret.locals[1].weeks = R(2, 1)
    /\ ret.value.items[1].risk = R(2, 10)

LeadTimeKeys == <<"lead_time", "leadTime", "availability">>

\* a product dict without a usable lead-time text
Unusable(p) ==
    \/ "raw" \notin DOMAIN p
    \/ /\ IsDict(p.raw)
       /\ \A j \in DOMAIN LeadTimeKeys :
              LeadTimeKeys[j] \in DOMAIN p.raw =>
                  \/ p.raw[LeadTimeKeys[j]] = <<>>
                  \/ \E c \in LeadTimeCases :
                         c.text = p.raw[LeadTimeKeys[j]] /\ c.kind = "unknown"

\* C16: the lead-time assessment never raises, and a product without a raw
\* record, with a raw record without any of the three lead-time keys, with an
\* empty text or with a text that has neither the in-stock phrase nor a count
\* of weeks or days gets the risk 0.5.
C16_NeverRaisesAndFallsBack ==
    LeadTimeCalled =>
        /\ "raises" \notin DOMAIN ret.value
        /\ \A i \in DOMAIN products :
               (IsDict(products[i]) /\ Unusable(products[i])) =>
                   ret.value.items[i].risk = R(5, 10)

\* the first non-empty value among the three keys, in their order
FirstNonEmpty(raw) ==
    LET filled == {j \in DOMAIN LeadTimeKeys :
                      /\ LeadTimeKeys[j] \in DOMAIN raw
                      /\ raw[LeadTimeKeys[j]] # <<>>}
    IN  IF filled = {} THEN <<>>
        ELSE raw[LeadTimeKeys[CHOOSE j \in filled : \A other \in filled : j <= other]]

\* the risk of the texts the key and batch products use
KnownRisk(text) ==
    IF text = <<>> THEN R(5, 10)
    ELSE IF text = InStockAustralia THEN Zero
    ELSE IF text = TwoWeeks THEN R(2, 10)
    ELSE IF text = SevenWeeks THEN R(6625, 10000)
    ELSE R(9, 10)

\* C17: the text that is classified is the first non-empty value among
\* raw.lead_time, raw.leadTime and raw.availability, in that order: lead_time
\* wins when non-empty, leadTime is used only when lead_time is absent or
\* empty, availability only when both are absent or empty.
C17_FirstNonEmptyKey ==
    LeadTimeReturned =>
        \A i \in DOMAIN products :
            LET raw == IF "raw" \in DOMAIN products[i] THEN products[i].raw ELSE << >>
            IN  /\ ret.value.items[i].lead_time = FirstNonEmpty(raw)
                /\ ret.locals[i].score = KnownRisk(FirstNonEmpty(raw))

\* an empty lead_time, leadTime "11 weeks", availability "2 weeks"
C17_Witness ==
    /\ LeadTimeReturned
    /\ Len(products) = 1
    /\ products[1].raw = [lead_time |-> <<>>, leadTime |-> ElevenWeeks,
                          availability |-> TwoWeeks]
    /\ ret.value.items[1].lead_time = ElevenWeeks
    /\ ret.value.items[1].risk = R(9, 10)

RECURSIVE KnownRiskSum(_, _)
KnownRiskSum(prods, upto) ==
    IF upto = 0 THEN Zero
    ELSE LET raw == IF "raw" \in DOMAIN prods[upto] THEN prods[upto].raw ELSE << >>
         IN  RAdd(KnownRiskSum(prods, upto - 1), KnownRisk(FirstNonEmpty(raw)))

KnownRiskMean(prods) == RDivInt(KnownRiskSum(prods, Len(prods)), Len(prods))

ItemsFollowProducts ==
    /\ Len(ret.value.items) = Len(products)
    /\ \A i \in DOMAIN products :
           LET raw == IF "raw" \in DOMAIN products[i] THEN products[i].raw ELSE << >>
           IN  /\ ret.value.items[i].lead_time = FirstNonEmpty(raw)
               /\ IsThousandths(ret.value.items[i].risk)
               /\ Within(ret.value.items[i].risk, KnownRisk(FirstNonEmpty(raw)))

-----------------------------------------------------------------------------
(* Claims on the recommendations                                           *)

Diversify == "Consider diversifying suppliers across more countries to reduce geographic concentration risk"

Monitor == "Monitor geographic concentration and consider adding suppliers in different regions"

Acceptable == "Supply chain risk levels are acceptable. Continue monitoring for changes."

ClimateNote == "Implement climate risk mitigation strategies for high-risk locations"

ClimateCountriesNote == "Consider alternative suppliers outside high climate risk countries"

GeopoliticalNote == "Develop contingency plans for geopolitical disruptions in high-risk regions"

GeopoliticalCountriesNote == "Monitor political stability in"

\* positions of a note in the returned recommendations
NotePositions(note) ==
    {i \in DOMAIN ret.value.recommendations : ret.value.recommendations[i].note = note}

\* C19: on a non-empty location list the recommendations are never empty and
\* come in the order geographic, climate, geopolitical; the diversify note
\* is there exactly when the reported HHI >= 0.7, the monitor note exactly
\* when 0.5 <= HHI < 0.7, and the acceptable-levels note exactly when no
\* other recommendation fired, in which case it is the only entry.
C19_ConcentrationAndFallbackNotes ==
    Assessed =>
        LET recs == ret.value.recommendations
            hhi == ret.value.geographic_risk.hhi
            geographic == NotePositions(Diversify) \cup NotePositions(Monitor)
            climate == NotePositions(ClimateNote) \cup NotePositions(ClimateCountriesNote)
            geopolitical == NotePositions(GeopoliticalNote)
                                \cup NotePositions(GeopoliticalCountriesNote)
            fired == \/ RGe(hhi, R(5, 10))
                     \/ ret.value.climate_risk.risk_level = "high"
                     \/ ret.value.geopolitical_risk.risk_level = "high"
        IN  /\ recs # <<>>
            /\ (NotePositions(Diversify) # {}) <=> RGe(hhi, R(7, 10))
            /\ (NotePositions(Monitor) # {})
                   <=> (RGe(hhi, R(5, 10)) /\ RLt(hhi, R(7, 10)))
            /\ geographic \subseteq {1}
            /\ \A g \in geographic, c \in climate : g < c
            /\ \A c \in climate, g \in geopolitical : c < g
            /\ (NotePositions(Acceptable) # {}) <=> ~fired
            /\ (NotePositions(Acceptable) # {}) => Len(recs) = 1

\* China, Australia and a location without a country: only the fallback
C19_Witness ==
    /\ Assessed
    /\ Len(locations) = 3
    /\ ret.value.geographic_risk.hhi = R(333, 1000)
    /\ [i \in DOMAIN ret.value.recommendations |-> ret.value.recommendations[i].note]
           = <<Acceptable>>

\* the note and, right after it, the note naming the flagged countries
BothNotes(exposure, note, countries_note) ==
    \E i \in NotePositions(note) :
        /\ i + 1 \in NotePositions(countries_note)
        /\ Range(ret.value.recommendations[i + 1].countries)
               = {exposure.high_risk_locations[j].country :
                     j \in DOMAIN exposure.high_risk_locations}

NeitherNote(note, countries_note) ==
    NotePositions(note) \cup NotePositions(countries_note) = {}

\* C20 as claimed: when the climate level is high the recommendations hold
\* the climate mitigation note together with a note naming the high-risk
\* climate countries, when the geopolitical level is high the contingency
\* note together with a note naming the high-risk geopolitical countries,
\* and neither pair when the level is not high.
C20_HighLevelGivesBothNotes ==
    Assessed =>
        /\ IF ret.value.climate_risk.risk_level = "high"
           THEN BothNotes(ret.value.climate_risk, ClimateNote, ClimateCountriesNote)
           ELSE NeitherNote(ClimateNote, ClimateCountriesNote)
        /\ IF ret.value.geopolitical_risk.risk_level = "high"
           THEN BothNotes(ret.value.geopolitical_risk, GeopoliticalNote,
                          GeopoliticalCountriesNote)
           ELSE NeitherNote(GeopoliticalNote, GeopoliticalCountriesNote)

\* the pair when some location is flagged, the note alone when none is
NotesOfHighLevel(exposure, note, countries_note) ==
    IF exposure.high_risk_locations # <<>>
    THEN /\ BothNotes(exposure, note, countries_note)
         /\ Cardinality(NotePositions(note)) = 1
         /\ Cardinality(NotePositions(countries_note)) = 1
         /\ \A i \in NotePositions(countries_note) :
                Len(ret.value.recommendations[i].countries)
                    = Cardinality(Range(ret.value.recommendations[i].countries))
    ELSE /\ Cardinality(NotePositions(note)) = 1
         /\ NotePositions(countries_note) = {}

\* C20 as amended: when the climate level is high the recommendations hold
\* the climate mitigation note, followed by a note naming each country of
\* the high-risk climate locations once exactly when there is such a
\* location; likewise the geopolitical contingency note and its countries
\* when the geopolitical level is high; neither note of a pair appears when
\* the level is not high.
C20_HighLevelNotes ==
    Assessed =>
        /\ IF ret.value.climate_risk.risk_level = "high"
           THEN NotesOfHighLevel(ret.value.climate_risk, ClimateNote,
                                 ClimateCountriesNote)
           ELSE NeitherNote(ClimateNote, ClimateCountriesNote)
        /\ IF ret.value.geopolitical_risk.risk_level = "high"
           THEN NotesOfHighLevel(ret.value.geopolitical_risk, GeopoliticalNote,
                                 GeopoliticalCountriesNote)
           ELSE NeitherNote(GeopoliticalNote, GeopoliticalCountriesNote)

\* Egypt and Sudan: both levels high, two climate countries named, and Sudan
\* alone among the geopolitical ones
C20_Witness ==
    /\ Assessed
    /\ Len(locations) = 2
    /\ AllCountries(locations) = {"Egypt", "Sudan"}
    /\ Len(ret.value.recommendations) = 5
    /\ Range(ret.value.recommendations[3].countries) = {"Egypt", "Sudan"}
    /\ ret.value.recommendations[5].countries = <<"Sudan">>

-----------------------------------------------------------------------------
(* Any engine operation on any request, one request after another.         *)

MaxEngineLocs == 2

EngineLocations ==
    {[type |-> "manufacturing", country |-> c] : c \in {"India", "Sudan"}}

EngineTypeArgs == {None, "manufacturing"}

EngineProductLists == {<<>>, <<[name |-> "p", raw |-> [lead_time |-> TwoWeeks]]>>}

InitEngine ==
    /\ TablesLoaded
    /\ locations \in SeqsUpTo(EngineLocations, MaxEngineLocs)
    /\ products \in EngineProductLists
    /\ ret = NoCall
    /\ prev = NoRequest
    /\ EngineAlone(EngineLocations)

NextEngine ==
    \/ \E t \in EngineTypeArgs : CalculateHhi(t)
    \/ AssessGeographicRisk
    \/ AssessClimateRisk
    \/ AssessGeopoliticalRisk
    \/ AssessLeadTimeRisk
    \/ AssessSupplyChainRisk
    \/ NextRequest(SeqsUpTo(EngineLocations, MaxEngineLocs), EngineProductLists)

SpecEngine == InitEngine /\ [][NextEngine]_vars

-----------------------------------------------------------------------------
(* Claims on the engine as a whole                                         *)

\* the call made on the current request is the call made on the request before
SameCallAgain ==
    /\ ret # NoCall
    /\ prev.call # NoCall
    /\ prev.call.op = ret.op
    /\ ret.op = "calculate_hhi" => prev.call.location_type = ret.location_type
    /\ prev.locations = locations
    /\ prev.products = products

-----------------------------------------------------------------------------
(* Claims derived from the arithmetic of the index                         *)

NoteNames(notes) == [i \in DOMAIN notes |-> notes[i].note]

-----------------------------------------------------------------------------
(* Calls of _assess_lead_time_risk on two products, to compare their risks *)

MaxOrderProducts == 2

\* every count of the lead-time cases, in weeks and in days, and the two
\* kinds of text without a count
OrderCases ==
    {[text |-> number.text \o <<" ">> \o <<"w", "e", "e", "k", "s">>,
      kind |-> "weeks", count |-> number.value] :
        number \in WholeNumbers \cup DecimalNumbers}
    \cup
    {[text |-> number.text \o <<" ">> \o <<"d", "a", "y", "s">>,
      kind |-> "days", count |-> number.value] : number \in WholeNumbers}
    \cup
    {[text |-> InStockAustralia, kind |-> "in_stock", count |-> R(0, 1)],
     [text |-> <<"s", "o", "o", "n">>, kind |-> "unknown", count |-> R(0, 1)]}

OrderProducts == {[name |-> "p", raw |-> [lead_time |-> c.text]] : c \in OrderCases}

InitLeadOrder ==
    /\ TablesLoaded
    /\ locations = <<>>
    /\ products \in SeqsUpTo(OrderProducts, MaxOrderProducts)
    /\ ret = NoCall
    /\ prev = NoRequest
    /\ EngineAlone({})

SpecLeadOrder == InitLeadOrder /\ [][NextLeadTime]_vars

\* C23: for two texts without the in-stock phrase whose extracted week
\* counts are w1 <= w2, the risk risk_from_text gives the first is at most
\* the risk it gives the second; and every risk, as computed and as rounded
\* into the item, lies in [0.0, 0.9].
C23_RiskGrowsWithWeeks ==
    LeadTimeReturned =>
        /\ \A i, j \in DOMAIN products :
               \A c1 \in Counted(i) : \A c2 \in Counted(j) :
                   RLe(WeeksOf(c1), WeeksOf(c2)) =>
                       RLe(ret.locals[i].score, ret.locals[j].score)
        /\ \A i \in DOMAIN products :
               /\ RLe(Zero, ret.locals[i].score)
               /\ RLe(ret.locals[i].score, R(9, 10))
               /\ RLe(Zero, ret.value.items[i].risk)
               /\ RLe(ret.value.items[i].risk, R(9, 10))

\* "0 weeks" (risk 0.0) before "6.5 weeks" (an interpolated risk)
C23_Witness ==
    /\ LeadTimeReturned
    /\ Len(products) = 2
    /\ \E c1 \in Counted(1) : \E c2 \in Counted(2) :
           /\ WeeksOf(c1) = Zero
           /\ WeeksOf(c2) = R(13, 2)
    /\ ret.locals[1].score = Zero
    /\ ret.locals[2].score = R(63125, 100000)

-----------------------------------------------------------------------------
(* The geocoding client (services/geocoding_service.py).  Times are in     *)
(* milliseconds.  A provider's answer is an input: a JSON document, or an  *)
(* error that requests.get or raise_for_status raises, together with the   *)
(* time it took to arrive.  requests lists the requests the client sent,   *)
(* each with the time at which it left.                                    *)

\* self.cache_duration: seven days
cache_duration == 7 * 24 * 60 * 60 * 1000

\* self.nominatim_delay: one second
nominatim_delay == 1000

\* the service as __init__ leaves it
NewGeocodingService(google_maps_api_key) ==
    [google_maps_api_key |-> google_maps_api_key,
     cache |-> << >>,
     cache_expiry |-> << >>,
     last_nominatim_request |-> 0]

\* d[key] = value
Put(d, key, value) ==
    [x \in DOMAIN d \cup {key} |-> IF x = key THEN value ELSE d[x]]

\* {**d, **e}, and d.copy() followed by update(e)
Update(d, e) ==
    [x \in DOMAIN d \cup DOMAIN e |-> IF x \in DOMAIN e THEN e[x] ELSE d[x]]

\* `if v:` for v a dict or None
NonEmpty(v) == IsDict(v) /\ DOMAIN v # {}

\* the service, the clock and the requests sent, as a call threads them
Client == [service |-> geocoding_service, now |-> now, requests |-> requests]

is_cache_valid(service, time, key) ==
    /\ key \in DOMAIN service.cache
    /\ key \in DOMAIN service.cache_expiry
    /\ time < service.cache_expiry[key]

get_cache(service, time, key) ==
    IF is_cache_valid(service, time, key) THEN service.cache[key] ELSE PyNone

set_cache(service, time, key, data) ==
    [service EXCEPT !.cache = Put(@, key, data),
                    !.cache_expiry = Put(@, key, time + cache_duration)]

\* requests.get: the request leaves now, the answer arrives elapsed later
Send(client, provider, response) ==
    [client EXCEPT !.requests = Append(@, [provider |-> provider,
                                           at |-> client.now,
                                           response |-> response]),
                   !.now = @ + response.elapsed]

geocode_google_maps(client, address, response) ==
    IF client.service.google_maps_api_key = ""
    THEN [client |-> client, value |-> PyNone]
    ELSE LET answered == Send(client, "google_maps", response)
         IN  IF response.kind = "error"
             THEN [client |-> answered, value |-> PyNone]
             ELSE IF response.status = "OK" /\ response.results # <<>>
             THEN LET result == response.results[1]
                      location == Get(Get(result, "geometry", << >>), "location", << >>)
                  IN  [client |-> answered,
                       value |-> [lat |-> Get(location, "lat", None),
                                  lng |-> Get(location, "lng", None),
                                  formatted_address |->
                                      Get(result, "formatted_address", address),
                                  place_id |-> Get(result, "place_id", None),
                                  provider |-> "google_maps"]]
             ELSE [client |-> answered, value |-> PyNone]

\* time.sleep(self.nominatim_delay - time_since_last), when that is due
time_to_wait(client) ==
    LET time_since_last == client.now - client.service.last_nominatim_request
    IN  IF time_since_last < nominatim_delay
        THEN nominatim_delay - time_since_last
        ELSE 0

geocode_nominatim(client, address, response) ==
    LET awake == [client EXCEPT !.now = @ + time_to_wait(client)]
        answered == Send(awake, "nominatim", response)
    IN  IF response.kind = "error"
        THEN [client |-> answered, value |-> PyNone]
        ELSE LET noted == [answered EXCEPT
                              !.service.last_nominatim_request = answered.now]
             IN  IF response.data # <<>>
                 THEN LET result == response.data[1]
                      IN  [client |-> noted,
                           value |-> [lat |-> Get(result, "lat", 0),
                                      lng |-> Get(result, "lon", 0),
                                      formatted_address |->
                                          Get(result, "display_name", address),
                                      place_id |-> Get(result, "place_id", None),
                                      provider |-> "nominatim"]]
                 ELSE [client |-> noted, value |-> PyNone]

\* f"geocode_{address}"
geocode_key(address) == <<"geocode_", address>>

\* the location with the coordinates a provider gave
geocoded_location(location, geocoded) ==
    Update(location, [lat |-> geocoded.lat,
                      lng |-> geocoded.lng,
                      formatted_address |-> geocoded.formatted_address,
                      geocoded |-> TRUE,
                      geocoding_provider |-> geocoded.provider])

\* a lookup that stores what it got, a failure included
store_any(client, key, found) ==
    [client EXCEPT !.service = set_cache(@, client.now, key, found.value)]

\* self._set_cache(cache_key, geocoded), under `if geocoded:`
store(client, key, found) ==
    IF NonEmpty(found.value)
    THEN [client EXCEPT !.service = set_cache(@, client.now, key, found.value)]
    ELSE client

geocode_location(client, location, google, nominatim) ==
    LET address == Get(location, "address", "")
        cache_key == geocode_key(address)
        cached_result == get_cache(client.service, client.now, cache_key)
    IN  IF address = "" THEN [client |-> client, value |-> PyNone]
        ELSE IF NonEmpty(cached_result)
        THEN [client |-> client, value |-> Update(location, cached_result)]
        ELSE LET first == geocode_google_maps(client, address, google)
                 found == IF ~NonEmpty(first.value)
                          THEN geocode_nominatim(first.client, address, nominatim)
                          ELSE first
             IN  [client |-> store(found.client, cache_key, found),
                  value |-> IF NonEmpty(found.value)
                            THEN geocoded_location(location, found.value)
                            ELSE PyNone]

RECURSIVE batch_geocode(_, _, _)
\* geocode_location on each location in turn, with the answers the
\* providers give for it; a location that cannot be geocoded is kept
batch_geocode(client, locs, answers) ==
    IF locs = <<>> THEN [client |-> client, value |-> <<>>]
    ELSE LET first == geocode_location(client, Head(locs), Head(answers).google,
                                       Head(answers).nominatim)
             rest == batch_geocode(first.client, Tail(locs), Tail(answers))
         IN  [client |-> rest.client,
              value |-> <<IF NonEmpty(first.value) THEN first.value ELSE Head(locs)>>
                        \o rest.value]

\* f"reverse_{lat}_{lng}"
reverse_key(lat, lng) == <<"reverse_", ToString(lat), "_", ToString(lng)>>

reverse_geocode(client, lat, lng, google, nominatim) ==
    LET cache_key == reverse_key(lat, lng)
        cached_result == get_cache(client.service, client.now, cache_key)
        asked == IF client.service.google_maps_api_key = "" THEN client
                 ELSE Send(client, "google_maps", google)
        google_found == /\ client.service.google_maps_api_key # ""
                        /\ google.kind # "error"
                        /\ google.status = "OK"
                        /\ google.results # <<>>
        google_raised == /\ client.service.google_maps_api_key # ""
                         /\ google.kind = "error"
        answered == Send(asked, "nominatim", nominatim)
    IN  IF NonEmpty(cached_result) THEN [client |-> client, value |-> cached_result]
        ELSE IF google_raised THEN [client |-> asked, value |-> PyNone]
        ELSE IF google_found
        THEN LET reverse_result ==
                     [formatted_address |->
                          Get(google.results[1], "formatted_address", None),
                      place_id |-> Get(google.results[1], "place_id", None),
                      provider |-> "google_maps"]
             IN  [client |-> [asked EXCEPT !.service =
                                  set_cache(@, asked.now, cache_key, reverse_result)],
                  value |-> reverse_result]
        ELSE IF nominatim.kind = "error" THEN [client |-> answered, value |-> PyNone]
        ELSE IF nominatim.data # <<>>
        THEN LET reverse_result ==
                     [formatted_address |-> Get(nominatim.data[1], "display_name", None),
                      place_id |-> Get(nominatim.data[1], "place_id", None),
                      provider |-> "nominatim"]
             IN  [client |-> [answered EXCEPT !.service =
                                  set_cache(@, answered.now, cache_key, reverse_result)],
                  value |-> reverse_result]
        ELSE [client |-> answered, value |-> PyNone]

-----------------------------------------------------------------------------
(* Calls of the geocoding client                                           *)

MaxRequests == 3

MaxSeconds == 2

\* time.time() when the application starts: long after the epoch
StartTime == 10 * nominatim_delay

\* what a provider may answer, after one of the given times
GoogleResponses(times) ==
    {[kind |-> "json", status |-> "OK", elapsed |-> e,
      results |-> <<[geometry |-> [location |-> [lat |-> 31, lng |-> 114]],
                     formatted_address |-> "as Google Maps writes it",
                     place_id |-> "google place"]>>] : e \in times}
    \cup {[kind |-> "json", status |-> "ZERO_RESULTS", elapsed |-> e,
           results |-> <<>>] : e \in times}
    \cup {[kind |-> "error", elapsed |-> e] : e \in times}

NominatimResponses(times) ==
    {[kind |-> "json", elapsed |-> e,
      data |-> <<[lat |-> 30, lon |-> 115,
                  display_name |-> "as Nominatim writes it",
                  place_id |-> "nominatim place"]>>] : e \in times}
    \cup {[kind |-> "json", elapsed |-> e, data |-> <<>>] : e \in times}
    \cup {[kind |-> "error", elapsed |-> e] : e \in times}

\* locations as extract_locations builds them, with and without an address
GeocodeLocations ==
    {[type |-> "manufacturing", address |-> a, country |-> "China"] :
        a \in {"", "Wuhan", "Xi'an"}}

ApiKeys == {"", "key"}

InitGeocoding ==
    /\ TablesLoaded
    /\ locations = <<>>
    /\ products = <<>>
    /\ ret = NoCall
    /\ prev = NoRequest
    /\ hash_order = <<>>
    /\ \E key \in ApiKeys : geocoding_service = NewGeocodingService(key)
    /\ now = StartTime
    /\ requests = <<>>
    /\ product_aware_service = NoService
    /\ loader = NoThread
    /\ handlers = <<>>

\* what a call of the client leaves behind
Returned(op, argument, out) ==
    /\ geocoding_service' = out.client.service
    /\ now' = out.client.now
    /\ requests' = out.client.requests
    /\ ret' = [op |-> op, argument |-> argument, before |-> Client,
               value |-> out.value]
    /\ prev' = [locations |-> locations, products |-> products, call |-> ret]
    /\ UNCHANGED <<climate_risk_data, geopolitical_risk_data, locations, products,
                   hash_order, catalog_vars>>

GeocodeLocation(location_dicts, times) ==
    /\ Len(requests) < MaxRequests
    /\ \E location \in location_dicts :
       \E google \in GoogleResponses(times) :
       \E nominatim \in NominatimResponses(times) :
           Returned("geocode_location", location,
                    geocode_location(Client, location, google, nominatim))

ReverseGeocode(times) ==
    /\ Len(requests) < MaxRequests
    /\ \E google \in GoogleResponses(times) :
       \E nominatim \in NominatimResponses(times) :
           Returned("reverse_geocode", <<31, 114>>,
                    reverse_geocode(Client, 31, 114, google, nominatim))

\* time passes between two calls
Pass(time, until) ==
    /\ now + time <= until
    /\ now' = now + time
    /\ UNCHANGED <<engine_vars, geocoding_service, requests, catalog_vars>>

\* answers come at once or after half a second; calls follow each other at
\* once or after half a second
NextThrottle ==
    \/ GeocodeLocation({[type |-> "manufacturing", address |-> "Wuhan",
                          country |-> "China"]}, {0, 500})
    \/ ReverseGeocode({0, 500})
    \/ Pass(500, StartTime + MaxSeconds * 1000)

SpecThrottle == InitGeocoding /\ [][NextThrottle]_vars

\* answers come after half a second; the cache entries may expire
NextGeocoding ==
    \/ GeocodeLocation(GeocodeLocations, {500})
    \/ Pass(cache_duration, StartTime + MaxSeconds * 1000 + cache_duration)

SpecGeocoding == InitGeocoding /\ [][NextGeocoding]_vars

-----------------------------------------------------------------------------
(* Claims on the geocoding client                                          *)

\* the times at which the client's requests to a provider left
SentTo(provider) ==
    LET sent == SelectSeq(requests, LAMBDA r : r.provider = provider)
    IN  [i \in DOMAIN sent |-> sent[i].at]

\* C24: any two consecutive requests that the service sends to Nominatim are
\* at least nominatim_delay (1 second) apart, whatever the sequence of
\* geocode_location and reverse_geocode calls, also after failed requests.
C24_NominatimRequestsSpaced ==
    LET at == SentTo("nominatim")
    IN  \A i \in DOMAIN at :
            i > 1 => at[i] - at[i - 1] >= nominatim_delay


GeocodeCalled == ret.op = "geocode_location"

\* the requests the last call sent
SentByCall == SubSeq(requests, Len(ret.before.requests) + 1, Len(requests))

ProvidersAsked == [i \in DOMAIN SentByCall |-> SentByCall[i].provider]

\* the request was answered with a result
Found(request) ==
    /\ request.response.kind = "json"
    /\ IF request.provider = "google_maps"
       THEN request.response.status = "OK" /\ request.response.results # <<>>
       ELSE request.response.data # <<>>

\* the cache held a valid entry for the address when the call began
CacheHit ==
    LET key == <<"geocode_", ret.argument.address>>
        service == ret.before.service
    IN  /\ key \in DOMAIN service.cache
        /\ ret.before.now < service.cache_expiry[key]

CacheUntouched ==
    /\ geocoding_service.cache = ret.before.service.cache
    /\ geocoding_service.cache_expiry = ret.before.service.cache_expiry

\* the call before the last one was the same lookup
SameLookupBefore ==
    /\ GeocodeCalled
    /\ prev.call.op = "geocode_location"
    /\ prev.call.argument = ret.argument

\* C25: geocode_location consults the cache first and on a valid entry sends
\* no request; on a miss it asks Google Maps first, only when an API key is
\* configured, and Nominatim only if Google Maps produced no result; it
\* writes the cache only after a provider succeeded, so a failed lookup is
\* never cached and is retried on the next call.
C25_LookupOrder ==
    (GeocodeCalled /\ ret.argument.address # "") =>
        LET key == <<"geocode_", ret.argument.address>>
            has_api_key == ret.before.service.google_maps_api_key # ""
            asked == ProvidersAsked
            succeeded == asked # <<>> /\ Found(SentByCall[Len(asked)])
            answered == SentByCall[Len(asked)].at
                            + SentByCall[Len(asked)].response.elapsed
        IN  /\ CacheHit => asked = <<>> /\ CacheUntouched
            /\ ~CacheHit =>
                   /\ asked \in {<<"google_maps">>, <<"google_maps", "nominatim">>,
                                 <<"nominatim">>}
                   /\ asked[1] = "google_maps" <=> has_api_key
                   /\ asked = <<"google_maps", "nominatim">>
                          <=> (has_api_key /\ ~Found(SentByCall[1]))
                   /\ succeeded =>
                          /\ key \in DOMAIN geocoding_service.cache
                          /\ geocoding_service.cache[key].provider = asked[Len(asked)]
                          /\ geocoding_service.cache_expiry[key] = answered + cache_duration
                          /\ NonEmpty(ret.value)
                   /\ ~succeeded => CacheUntouched /\ ret.value = PyNone
            /\ (SameLookupBefore /\ prev.call.value = PyNone) => asked # <<>>

\* a lookup that failed is made again: Google Maps has no result, Nominatim
\* has one, and the result is cached
C25_Witness ==
    /\ SameLookupBefore
    /\ prev.call.value = PyNone
    /\ ProvidersAsked = <<"google_maps", "nominatim">>
    /\ Found(SentByCall[2])
    /\ ret.value.geocoding_provider = "nominatim"
    /\ <<"geocode_", ret.argument.address>> \in DOMAIN geocoding_service.cache

\* C26: for a successfully geocoded address, a second geocode_location call
\* with the same location while the cache entry is valid returns a record
\* equal to the one the first call returned (same keys, the geocoded flag and
\* the provider field included, and same values).
C26_SecondCallReturnsTheSame ==
    (SameLookupBefore /\ NonEmpty(prev.call.value) /\ CacheHit)
        => ret.value = prev.call.value

-----------------------------------------------------------------------------
(* The /api/risk/assess handler (SCRA/app.py) and batch_geocode, on the    *)
(* products that get_batch_products found.                                 *)

\* the location dicts of one kind that extract_locations builds
extracted(sites, type, extra_key, extra_default) ==
    [i \in DOMAIN sites |->
        Update([type |-> type,
                name |-> Get(sites[i], "name", "Unknown"),
                address |-> Get(sites[i], "address", ""),
                country |-> Get(sites[i], "country", "Unknown"),
                coordinates |-> Get(sites[i], "coordinates", << >>),
                raw |-> sites[i]],
               IF extra_key = "" THEN << >>
               ELSE (extra_key :> Get(sites[i], extra_key, extra_default)))]

extract_locations(product) ==
    extracted(Get(product, "manufacturingSites", <<>>), "manufacturing", "component", "")
    \o extracted(Get(product, "rawMaterialSources", <<>>), "raw_material",
                 "material", "Unknown")
    \o extracted(Get(product, "suppliers", <<>>), "supplier", "", "")

RECURSIVE geocode_product_locations(_, _, _)
\* the handler's loop over product_locations: a geocoded location is
\* appended `if geocoded:`; geocode_location raises nothing on a dict
geocode_product_locations(client, product_locations, answers) ==
    IF product_locations = <<>> THEN [client |-> client, value |-> <<>>]
    ELSE LET first == geocode_location(client, Head(product_locations),
                                       Head(answers).google, Head(answers).nominatim)
             rest == geocode_product_locations(first.client, Tail(product_locations),
                                               Tail(answers))
         IN  [client |-> rest.client,
              value |-> (IF NonEmpty(first.value) THEN <<first.value>> ELSE <<>>)
                        \o rest.value]

RECURSIVE product_results(_, _, _, _, _)
\* the handler's loop over the products: for each product with locations,
\* what it extracted, what it passed to assess_supply_chain_risk, and what
\* the engine returned
product_results(client, prods, answers, climate, geopolitical) ==
    IF prods = <<>> THEN {[client |-> client, value |-> <<>>]}
    ELSE LET product == Head(prods)
             product_locations == extract_locations(product)
             geocoded == geocode_product_locations(client, product_locations,
                                                   Head(answers))
         IN  IF product_locations = <<>>
             THEN product_results(client, Tail(prods), Tail(answers),
                                  climate, geopolitical)
             ELSE {[client |-> rest.client,
                    value |-> <<[product |-> product,
                                 product_locations |-> product_locations,
                                 geocoded_product_locations |-> geocoded.value,
                                 risk_results |-> risk_results.value]>>
                              \o rest.value] :
                      risk_results \in assess_supply_chain_risk(
                                           geocoded.value, <<product>>,
                                           climate, geopolitical),
                      rest \in product_results(geocoded.client, Tail(prods),
                                               Tail(answers), climate, geopolitical)}

MaxSites == 2

MaxFoundProducts == 1

\* manufacturing sites as _transform_product_data lists them
Sites ==
    {[name |-> "plant", address |-> a, country |-> "China"] : a \in {"", "Wuhan"}}
    \cup {[name |-> "plant", country |-> "Sudan"]}

\* products as get_batch_products returns them
FoundProducts ==
    {[name |-> "p", manufacturingSites |-> sites, rawMaterialSources |-> <<>>,
      suppliers |-> <<>>, raw |-> [lead_time |-> TwoWeeks]] :
        sites \in SeqsUpTo(Sites, MaxSites)}

\* for each location of a list, what the two providers would answer
Answers(count) ==
    [1..count -> [google : GoogleResponses({500}), nominatim : NominatimResponses({500})]]

InitRoutes ==
    /\ TablesLoaded
    /\ locations = <<>>
    /\ products \in SeqsUpTo(FoundProducts, MaxFoundProducts)
    /\ ret = NoCall
    /\ prev = NoRequest
    /\ hash_order = <<>>
    /\ \E key \in ApiKeys : geocoding_service = NewGeocodingService(key)
    /\ now = StartTime
    /\ requests = <<>>
    /\ product_aware_service = NoService
    /\ loader = NoThread
    /\ handlers = <<>>

\* POST /api/risk/assess, from the products found to the engine's results
AssessRisk ==
    /\ ret = NoCall
    /\ products # <<>>
    /\ \E answers \in [DOMAIN products -> Answers(MaxSites)] :
       \E out \in product_results(Client, products, answers, climate_risk_data,
                                  geopolitical_risk_data) :
           Returned("assess_risk", products, out)

BatchGeocode ==
    /\ ret = NoCall
    /\ \E product \in Range(products) :
       \E answers \in Answers(MaxSites) :
           Returned("batch_geocode", extract_locations(product),
                    batch_geocode(Client, extract_locations(product), answers))

NextRoutes ==
    \/ AssessRisk
    \/ BatchGeocode

SpecRoutes == InitRoutes /\ [][NextRoutes]_vars

\* the location itself, or the location with coordinates added
AssessedAs(location, assessed) ==
    \/ assessed = location
    \/ /\ "lat" \in DOMAIN assessed
       /\ \A key \in DOMAIN location : assessed[key] = location[key]

\* C30: a geocoding failure never removes a location from what is assessed:
\* in /api/risk/assess, as in batch_geocode, every location extracted for a
\* product is passed on, geocoded when geocoding succeeded and as it was when
\* geocoding returned no result, so as many locations are assessed as were
\* extracted.
C30_EveryLocationAssessed ==
    /\ ret.op = "assess_risk" =>
           \A i \in DOMAIN ret.value :
               LET extracted_locations == ret.value[i].product_locations
                   assessed == ret.value[i].geocoded_product_locations
               IN  /\ Len(assessed) = Len(extracted_locations)
                   /\ \A j \in DOMAIN assessed :
                          AssessedAs(extracted_locations[j], assessed[j])
    /\ ret.op = "batch_geocode" =>
           /\ Len(ret.value) = Len(ret.argument)
           /\ \A j \in DOMAIN ret.value : AssessedAs(ret.argument[j], ret.value[j])

-----------------------------------------------------------------------------
(* The product catalog client (services/product_aware_service.py): the     *)
(* background thread that fetches every page and builds the fast search    *)
(* index, and the request threads that search.  A dict that is iterated is *)
(* the sequence of its entries in the order of their insertion.  A page    *)
(* answer is an input: a JSON document with its items, or an error.        *)

\* max_pages of _fetch_all_products_sync
max_pages == 20

\* the page size the loader takes the catalog to have
page_size == 100

\* max_results of search_products
max_results == 50

\* the service as __init__ leaves it when it starts the thread
NewProductAwareService ==
    [fast_search_cache |-> <<>>, cache_loaded |-> FALSE, cache_loading |-> FALSE]

\* the thread as threading.Thread.start leaves it
NewLoader ==
    [pc |-> "start", page |-> 1, all_products |-> <<>>, position |-> 1,
     answers |-> <<>>]

\* key in d
HasKey(d, key) == \E i \in DOMAIN d : d[i].key = key

\* d[key]
Lookup(d, key) == d[CHOOSE i \in DOMAIN d : d[i].key = key].value

\* if key not in d: d[key] = []; then d[key].append(v)
AppendTo(d, key, v) ==
    IF HasKey(d, key)
    THEN [d EXCEPT ![CHOOSE i \in DOMAIN d : d[i].key = key] =
                       [@ EXCEPT !.value = Append(@, v)]]
    ELSE Append(d, [key |-> key, value |-> <<v>>])

\* seq[:n]
FirstN(seq, n) == SubSeq(seq, 1, IF Len(seq) < n THEN Len(seq) ELSE n)

\* product.get('product_name', '').lower()
name_of(product) == lower(Get(product, "product_name", <<>>))

\* (product.get('product_code', '') or '').lower()
code_of(product) == lower(Get(product, "product_code", <<>>))

\* the body of the indexing loop, for a product that is a dict
index_product(cache, product) ==
    CHOOSE indexed \in
        UNION {{IF code # <<>> THEN AppendTo(by_name, code, product) ELSE by_name :
                   by_name \in {IF name # <<>> THEN AppendTo(cache, name, product)
                                ELSE cache}} :
               name \in {name_of(product)}, code \in {code_of(product)}} : TRUE

\* load_cache, line 56
LoaderStarts ==
    /\ loader.pc = "start"
    /\ product_aware_service' = [product_aware_service EXCEPT !.cache_loading = TRUE]
    /\ loader' = [loader EXCEPT !.pc = "fetch"]
    /\ UNCHANGED <<engine_vars, geocoding_vars, handlers>>

\* one round of the loop of _fetch_all_products_sync: a page is requested and
\* answered
LoaderFetches(responses) ==
    /\ loader.pc = "fetch"
    /\ \E response \in responses :
           LET stop == \/ response.kind = "error"
                       \/ Len(response.items) < page_size
                       \/ loader.page + 1 > max_pages
           IN  loader' = [loader EXCEPT
                   !.answers = Append(@, response),
                   !.all_products = IF response.kind = "error" THEN @
                                    ELSE @ \o response.items,
                   !.page = IF response.kind = "error"
                               \/ Len(response.items) < page_size
                            THEN @ ELSE @ + 1,
                   !.pc = IF stop THEN "index" ELSE "fetch"]
    /\ UNCHANGED <<engine_vars, geocoding_vars, product_aware_service, handlers>>

\* the indexing loop over all_products[lo..hi], none of which raises; the
\* first half is indexed before the second starts
RECURSIVE index_range(_, _, _, _)
index_range(cache, all_products, lo, hi) ==
    IF lo > hi THEN cache
    ELSE IF lo = hi
    THEN CHOOSE indexed \in {index_product(cache, product) :
                                product \in {all_products[lo]}} : TRUE
    ELSE CHOOSE indexed \in
             UNION {{index_range(half, all_products, mid + 1, hi) :
                        half \in {index_range(cache, all_products, lo, mid)}} :
                    mid \in {(lo + hi) \div 2}} : TRUE

\* at most `rounds` rounds of the indexing loop, taken as one step of the
\* thread; product.get raises on a product that is no dict, and the except
\* branch resets cache_loading
LoaderIndexes(rounds) ==
    /\ loader.pc = "index"
    /\ loader.position <= Len(loader.all_products)
    /\ \E last \in {IF loader.position + rounds - 1 < Len(loader.all_products)
                     THEN loader.position + rounds - 1
                     ELSE Len(loader.all_products)} :
       \E raising \in {{i \in loader.position..last :
                           ~IsDict(loader.all_products[i])}} :
       \E stop \in {IF raising = {} THEN last + 1
                     ELSE CHOOSE i \in raising : \A j \in raising : i <= j} :
       \E indexed \in {index_range(product_aware_service.fast_search_cache,
                                    loader.all_products, loader.position, stop - 1)} :
           /\ product_aware_service' =
                  [product_aware_service EXCEPT
                      !.fast_search_cache = indexed,
                      !.cache_loading = IF raising = {} THEN @ ELSE FALSE]
           /\ loader' = [loader EXCEPT
                  !.position = stop,
                  !.pc = IF raising = {} THEN "index" ELSE "failed"]
    /\ UNCHANGED <<engine_vars, geocoding_vars, handlers>>

\* cache_loaded set before the index is built
LoaderSetsLoadedEarly ==
    /\ loader.pc = "index"
    /\ product_aware_service' = [product_aware_service EXCEPT !.cache_loaded = TRUE]
    /\ loader' = [loader EXCEPT !.pc = IF loader.position > Len(loader.all_products)
                                       THEN "loaded" ELSE "index"]
    /\ UNCHANGED <<engine_vars, geocoding_vars, handlers>>

\* load_cache, line 77
LoaderSetsLoaded ==
    /\ loader.pc = "index"
    /\ loader.position > Len(loader.all_products)
    /\ product_aware_service' = [product_aware_service EXCEPT !.cache_loaded = TRUE]
    /\ loader' = [loader EXCEPT !.pc = "loaded"]
    /\ UNCHANGED <<engine_vars, geocoding_vars, handlers>>

\* the thread ends with cache_loading left as it is
LoaderEndsStillLoading ==
    /\ loader.pc = "loaded"
    /\ loader' = [loader EXCEPT !.pc = "done"]
    /\ UNCHANGED <<engine_vars, geocoding_vars, product_aware_service, handlers>>

\* load_cache, line 78
LoaderEnds ==
    /\ loader.pc = "loaded"
    /\ product_aware_service' = [product_aware_service EXCEPT !.cache_loading = FALSE]
    /\ loader' = [loader EXCEPT !.pc = "done"]
    /\ UNCHANGED <<engine_vars, geocoding_vars, handlers>>

Loader(responses, rounds) ==
    \/ LoaderStarts
    \/ LoaderFetches(responses)
    \/ LoaderIndexes(rounds)
    \/ LoaderSetsLoaded
    \/ LoaderEnds

\* a page of count copies of a product
Page(product, count) ==
    [kind |-> "json", items |-> [i \in 1..count |-> product]]

Bolt == [id |-> 1, product_name |-> <<"B", "o", "l", "t">>,
         product_code |-> <<"B", "-", "1">>]

Nut == [id |-> 2, product_name |-> <<"N", "u", "t">>]

\* what the catalog may answer to the loader: a full page, a last page, an
\* empty page, a page with an item that is null, or an error
Pages ==
    {Page(Bolt, page_size), Page(Nut, 1), Page(Bolt, 0),
     [kind |-> "json", items |-> <<Bolt, PyNone>>],
     [kind |-> "error"]}

InitLoader ==
    /\ TablesLoaded
    /\ locations = <<>>
    /\ products = <<>>
    /\ ret = NoCall
    /\ prev = NoRequest
    /\ hash_order = <<>>
    /\ geocoding_service = NoService
    /\ now = 0
    /\ requests = <<>>
    /\ product_aware_service = NewProductAwareService
    /\ loader = NewLoader
    /\ handlers = <<>>

\* with no other thread running, the indexing loop is one step
NextLoader == Loader(Pages, max_pages * page_size)

SpecLoader == InitLoader /\ [][NextLoader]_vars

\* every page request returns or fails, and the thread is scheduled
SpecLoaderFair == SpecLoader /\ WF_vars(NextLoader)


\* C29: if every page request returns or fails and the loader thread is
\* scheduled, the loader finishes; it requests at most max_pages pages, every
\* page but the last one requested was a full page, and none follows an
\* error, an empty page or a page of fewer than page_size items; once it has
\* finished cache_loading is false for good, and cache_loaded tells whether
\* the indexing loop completed or raised.
LoaderFinished == loader.pc \in {"done", "failed"}

StopsFetching(response) ==
    \/ response.kind = "error"
    \/ Len(response.items) < page_size

C29_LoaderFinishes ==
    /\ <>LoaderFinished
    /\ [](/\ Len(loader.answers) <= max_pages
          /\ \A i \in 1..(Len(loader.answers) - 1) : ~StopsFetching(loader.answers[i])
          /\ (\E i \in DOMAIN loader.answers : StopsFetching(loader.answers[i]))
                 => loader.pc # "fetch"
          /\ loader.pc = "fetch" => Len(loader.answers) = loader.page - 1
          /\ LoaderFinished =>
                 /\ ~product_aware_service.cache_loading
                 /\ product_aware_service.cache_loaded <=> loader.pc = "done"
                 /\ loader.pc = "done" <=>
                        \A i \in DOMAIN loader.all_products :
                            IsDict(loader.all_products[i]))
    /\ [][LoaderFinished => UNCHANGED <<product_aware_service, loader>>]_vars

C29_Witness ==
    /\ loader.pc = "done"
    /\ Len(loader.answers) = max_pages
    /\ Len(loader.all_products) = max_pages * page_size
    /\ ~product_aware_service.cache_loading
    /\ product_aware_service.cache_loaded

-----------------------------------------------------------------------------
(* The request threads that read the catalog index while the loader runs: *)
(* search_products and get_batch_products of the service, and the          *)
(* /api/products/all handler of SCRA/app.py.  A thread records the         *)
(* loader's position at each of its reads of cache_loaded (checks) and of  *)
(* the index (reads), and the branch it took (paths).                      *)

\* _add_image_urls, for a product without an image
with_image_urls(product) ==
    Put(Put(product, "image_url", <<>>), "thumbnail_url", <<>>)

\* _add_image_urls writes into the products it is given: a product of the
\* index that is among the matches carries the two fields afterwards
add_image_urls(listed, matches) ==
    [i \in DOMAIN listed |->
        IF \E j \in DOMAIN matches : matches[j] = listed[i]
        THEN with_image_urls(listed[i]) ELSE listed[i]]

\* the products of the entries whose key contains the query, in the order
\* of the entries
RECURSIVE partial_matches(_, _)
partial_matches(cache, query_lower) ==
    IF cache = <<>> THEN <<>>
    ELSE (IF Contains(Head(cache).key, query_lower) THEN Head(cache).value ELSE <<>>)
         \o partial_matches(Tail(cache), query_lower)

\* _fast_search
fast_search(cache, query_lower, limit) ==
    IF HasKey(cache, query_lower)
    THEN FirstN(Lookup(cache, query_lower), limit)
    ELSE FirstN(partial_matches(cache, query_lower), limit)

\* the condition of the fallback searches on one product
matches_query(product, query_lower) ==
    \/ query_lower = name_of(product)
    \/ query_lower = code_of(product)
    \/ Contains(name_of(product), query_lower)
    \/ Contains(code_of(product), query_lower)

\* items[i] is the first item at which the loop of a fallback search raises
\* or, for stop_at_match, returns
FirstStop(items, query_lower, stop_at_match) ==
    LET stops == {i \in DOMAIN items :
                     \/ ~IsDict(items[i])
                     \/ stop_at_match /\ matches_query(items[i], query_lower)}
    IN  IF stops = {} THEN 0 ELSE CHOOSE i \in stops : \A j \in stops : i <= j

\* _regular_search_with_timeout, for the answer to its request of page 1
regular_search(response, query_lower, limit) ==
    IF response.kind = "error" THEN <<>>
    ELSE LET raises == FirstStop(response.items, query_lower, FALSE)
             reached == IF raises = 0 THEN response.items
                        ELSE SubSeq(response.items, 1, raises - 1)
             matching == SelectSeq(reached,
                                   LAMBDA product : matches_query(product, query_lower))
         IN  IF Len(matching) >= limit THEN FirstN(matching, limit)
             ELSE IF raises # 0 THEN <<>>
             ELSE matching

\* _fast_batch_search
fast_batch_search(cache, product_name) ==
    LET found == fast_search(cache, lower(product_name), 1)
    IN  IF found = <<>> THEN PyNone ELSE found[1]

\* _regular_batch_search, for the answer to its request of page 1
regular_batch_search(response, product_name) ==
    IF response.kind = "error" THEN PyNone
    ELSE LET stop == FirstStop(response.items, lower(product_name), TRUE)
         IN  IF stop = 0 \/ ~IsDict(response.items[stop]) THEN PyNone
             ELSE response.items[stop]

\* a request thread at its first statement
NewHandler(op, names) ==
    [op |-> op, pc |-> IF op = "get_all_products_endpoint" THEN "wait" ELSE "check",
     names |-> names, i |-> 1, wait_count |-> 0, found |-> <<>>,
     checks |-> <<>>, paths |-> <<>>, reads |-> <<>>]

\* where the loader is, as a thread finds it
LoaderAt ==
    [pc |-> loader.pc, position |-> loader.position,
     fetched |-> Len(loader.all_products),
     cache_loaded |-> product_aware_service.cache_loaded,
     cache_loading |-> product_aware_service.cache_loading]

\* a request arrives and a thread is started for it
Arrives(requested) ==
    /\ Len(handlers) < requested.threads
    /\ \E request \in requested.requests :
           handlers' = Append(handlers, NewHandler(request.op, request.names))
    /\ UNCHANGED <<engine_vars, geocoding_vars, product_aware_service, loader>>

\* `self.cache_loaded and ...` of search_products and get_batch_products
ChecksLoaded(t) ==
    /\ handlers[t].pc = "check"
    /\ handlers' = [handlers EXCEPT
           ![t].checks = Append(@, LoaderAt),
           ![t].pc = IF product_aware_service.cache_loaded
                     THEN "check_index" ELSE "regular"]
    /\ UNCHANGED <<engine_vars, geocoding_vars, product_aware_service, loader>>

\* `... and self.fast_search_cache`
ChecksIndex(t) ==
    /\ handlers[t].pc = "check_index"
    /\ handlers' = [handlers EXCEPT
           ![t].reads = Append(@, LoaderAt),
           ![t].pc = IF product_aware_service.fast_search_cache # <<>>
                     THEN "fast" ELSE "regular"]
    /\ UNCHANGED <<engine_vars, geocoding_vars, product_aware_service, loader>>

\* the thread after one name: search_products returns, get_batch_products
\* goes on with the next name
AfterName(handler) ==
    IF handler.i < Len(handler.names)
    THEN [handler EXCEPT !.i = @ + 1, !.pc = "check"]
    ELSE [handler EXCEPT !.pc = "done"]

\* found_products.append, for a product that is not None
Appended(found, product) ==
    IF NonEmpty(product) THEN Append(found, product) ELSE found

\* the fast branch: _fast_search and _add_image_urls, or _fast_batch_search
SearchesIndex(t) ==
    /\ handlers[t].pc = "fast"
    /\ LET handler == handlers[t]
           cache == product_aware_service.fast_search_cache
           name == handler.names[handler.i]
           matches == fast_search(cache, lower(name), max_results)
           taken == [handler EXCEPT !.reads = Append(@, LoaderAt),
                                    !.paths = Append(@, "fast")]
       IN  IF handler.op = "search_products"
           THEN /\ handlers' = [handlers EXCEPT ![t] =
                       AfterName([taken EXCEPT
                           !.found = add_image_urls(matches, matches)])]
                /\ product_aware_service' = [product_aware_service EXCEPT
                       !.fast_search_cache =
                           [e \in DOMAIN cache |->
                               [cache[e] EXCEPT
                                   !.value = add_image_urls(@, matches)]]]
                /\ loader' = [loader EXCEPT
                       !.all_products = add_image_urls(@, matches)]
           ELSE /\ handlers' = [handlers EXCEPT ![t] =
                       AfterName([taken EXCEPT
                           !.found = Appended(@, fast_batch_search(cache, name))])]
                /\ UNCHANGED <<product_aware_service, loader>>
    /\ UNCHANGED <<engine_vars, geocoding_vars>>

\* the fallback branch: page 1 is requested and answered, and searched
SearchesFirstPage(t, responses) ==
    /\ handlers[t].pc = "regular"
    /\ \E response \in responses :
           LET handler == handlers[t]
               name == handler.names[handler.i]
               matches == regular_search(response, lower(name), max_results)
               taken == [handler EXCEPT !.paths = Append(@, "regular")]
           IN  handlers' = [handlers EXCEPT ![t] =
                   AfterName([taken EXCEPT !.found =
                       IF handler.op = "search_products"
                       THEN add_image_urls(matches, matches)
                       ELSE Appended(@, regular_batch_search(response, name))])]
    /\ UNCHANGED <<engine_vars, geocoding_vars, product_aware_service, loader>>

\* the most rounds get_all_products_endpoint waits, of half a second each
max_wait_count == 30

\* one test of the condition of the wait loop of get_all_products_endpoint,
\* and the sleep if it holds
Waits(t) ==
    /\ handlers[t].pc = "wait"
    /\ handlers' = [handlers EXCEPT ![t] =
           IF /\ product_aware_service.cache_loading
              /\ handlers[t].wait_count < max_wait_count
           THEN [@ EXCEPT !.wait_count = @ + 1]
           ELSE [@ EXCEPT !.pc = "read"]]
    /\ UNCHANGED <<engine_vars, geocoding_vars, product_aware_service, loader>>

\* the ids in the order in which the loop over the index first sees them
RECURSIVE seen_ids(_, _)
seen_ids(listed, seen) ==
    IF listed = <<>> THEN seen
    ELSE LET id == Get(Head(listed), "id", 0)
         IN  seen_ids(Tail(listed),
                      IF id # 0 /\ \A i \in DOMAIN seen : seen[i] # id
                      THEN Append(seen, id) ELSE seen)

\* every list of the index, one after the other
RECURSIVE index_values(_)
index_values(cache) ==
    IF cache = <<>> THEN <<>> ELSE Head(cache).value \o index_values(Tail(cache))

\* the loop of get_all_products_endpoint over fast_search_cache.values()
ReadsIndex(t) ==
    /\ handlers[t].pc = "read"
    /\ handlers' = [handlers EXCEPT
           ![t].reads = Append(@, LoaderAt),
           ![t].found = seen_ids(index_values(product_aware_service.fast_search_cache),
                                 <<>>),
           ![t].pc = "done"]
    /\ UNCHANGED <<engine_vars, geocoding_vars, product_aware_service, loader>>

Handler(t, responses) ==
    \/ ChecksLoaded(t)
    \/ ChecksIndex(t)
    \/ SearchesIndex(t)
    \/ SearchesFirstPage(t, responses)
    \/ Waits(t)
    \/ ReadsIndex(t)

\* the request threads of one run
MaxHandlers == 1

\* what the catalog answers while requests are served: a last page of two
\* products, one with an item that is null, or an error
LastPages ==
    {[kind |-> "json", items |-> <<Bolt, Nut>>],
     [kind |-> "json", items |-> <<Bolt, PyNone>>],
     [kind |-> "error"]}

\* the requests made: a search by a part of a name, a batch of a name in
\* capitals and an unknown one, and the list of all products
Requests ==
    [threads |-> MaxHandlers,
     requests |->
        {[op |-> "search_products", names |-> <<<<"o", "l">>>>],
         [op |-> "get_batch_products",
          names |-> <<<<"N", "U", "T">>, <<"x">>>>],
         [op |-> "get_all_products_endpoint", names |-> <<>>]}]

InitCatalog == InitLoader

NextCatalog ==
    \/ Loader(LastPages, 1)
    \/ Arrives(Requests)
    \/ \E t \in DOMAIN handlers : Handler(t, LastPages)

SpecCatalog == InitCatalog /\ [][NextCatalog]_vars


\* C27: in every interleaving of the loader with threads of search_products
\* and get_batch_products, a thread reads the index only while cache_loaded
\* is true; cache_loaded is true only when the indexing loop has gone
\* through every fetched product, each of them listed under its lower-cased
\* name and under its lower-cased code where these are not empty; and a
\* thread that read cache_loaded before the loader set it, or after the
\* loader failed, searches page 1 instead.
Searching(handler) == handler.op \in {"search_products", "get_batch_products"}

Listed(cache, key, product) ==
    key # <<>> =>
        /\ HasKey(cache, key)
        /\ \E i \in DOMAIN Lookup(cache, key) : Lookup(cache, key)[i] = product

EveryProductIndexed ==
    /\ loader.position > Len(loader.all_products)
    /\ \A i \in DOMAIN loader.all_products :
           LET product == loader.all_products[i]
           IN  /\ IsDict(product)
               /\ Listed(product_aware_service.fast_search_cache,
                         name_of(product), product)
               /\ Listed(product_aware_service.fast_search_cache,
                         code_of(product), product)

TookFallback(handler, n) ==
    IF n <= Len(handler.paths) THEN handler.paths[n] = "regular"
    ELSE handler.pc = "regular"

C27_IndexReadOnlyWhenLoaded ==
    /\ product_aware_service.cache_loaded => EveryProductIndexed
    /\ \A t \in DOMAIN handlers :
           Searching(handlers[t]) =>
               /\ handlers[t].pc \in {"check_index", "fast"}
                      => product_aware_service.cache_loaded
               /\ \A n \in DOMAIN handlers[t].reads :
                      /\ handlers[t].reads[n].cache_loaded
                      /\ handlers[t].reads[n].pc \in {"loaded", "done"}
               /\ \A n \in DOMAIN handlers[t].checks :
                      handlers[t].checks[n].pc \in {"start", "fetch", "index", "failed"}
                          => TookFallback(handlers[t], n)

\* get_batch_products found its first name on page 1 while the index was
\* being built and its second name was looked up in the finished index
C27_Witness ==
    \E t \in DOMAIN handlers :
        /\ handlers[t].op = "get_batch_products"
        /\ handlers[t].pc = "done"
        /\ handlers[t].paths = <<"regular", "fast">>
        /\ handlers[t].checks[1].pc = "index"
        /\ handlers[t].found = <<Nut>>
        /\ product_aware_service.cache_loaded

\* C28: in every interleaving with the loader, the /api/products/all handler
\* reads the index only when the loader has not begun to build it or has
\* built it from every fetched product, so its list never comes from a part
\* of the index.
NotPartial(at) ==
    \/ at.pc \in {"start", "fetch", "loaded", "done"}
    \/ at.pc = "index" /\ at.position > at.fetched

C28_AllProductsReadsBuiltIndex ==
    \A t \in DOMAIN handlers :
        handlers[t].op = "get_all_products_endpoint" =>
            \A n \in DOMAIN handlers[t].reads : NotPartial(handlers[t].reads[n])

=============================================================================
